---- MODULE Spec2Model ----
(***************************************************************************)
(* Model of powerdns-migrator: the reconciliation engine                   *)
(* (AsyncZoneMigrator) and the HTTP client retry loop                      *)
(* (AsyncPowerDNSClient).                                                  *)
(*                                                                         *)
(* Encoding of Python values                                               *)
(*   str        a sequence of chunks, e.g. "www.ex." = <<"www",".","ex",".">>*)
(*              for names; record contents are [parts, ws] where parts are *)
(*              the whitespace separated fields and ws tells whether the   *)
(*              whitespace is anything but single separating blanks        *)
(*   optional   <<>> for a missing key / None, <<v>> for a present value   *)
(*   dict       a function whose DOMAIN is the set of keys                 *)
(*   list       a sequence                                                 *)
(***************************************************************************)
EXTENDS Integers, Sequences, FiniteSets, TLC

VARIABLES
    ignore_soa_serial,  \* AsyncZoneMigrator.ignore_soa_serial
    auto_fix_cname_conflicts,         \* AsyncZoneMigrator's flag
    auto_fix_double_cname_conflicts,  \* AsyncZoneMigrator's flag
    warnings,           \* what _drop_cname_conflicts logged, in order
    normalize_txt_escapes,  \* keyword given to AsyncZoneMigrator (<<>>: none)
    retries,            \* AsyncPowerDNSClient.retries
    source_doc,         \* zone document served by the source server
    target_doc,         \* zone document served by the target, <<>> if absent
    recreate,           \* migrate(recreate=...)
    dry_run,            \* migrate(dry_run=...)
    pc,                 \* position inside migrate / the harness
    sanitized,          \* migrate: local sanitized
    target_zone,        \* migrate: local target_zone (<<>> is None)
    changes,            \* migrate: local changes
    result,             \* value returned by migrate (<<>> before return)
    error,              \* exception raised out of migrate (<<>> if none)
    requests,           \* logical client calls issued so far, in order
    attempt,            \* _request_*: loop variable attempt
    attempts,           \* HTTP attempts made for the call in progress
    sleeps,             \* asyncio.sleep calls made for the call in progress
    last_error,         \* _request_*: local last_error (<<>> is None)
    last_outcome,       \* what the latest HTTP attempt of the call ended in
    outcomes,           \* how each HTTP attempt of the call ended, in order
    retry_backoff,      \* AsyncPowerDNSClient.retry_backoff, in ticks
    retry_max_backoff,  \* AsyncPowerDNSClient.retry_max_backoff, in ticks
    retry_jitter,       \* AsyncPowerDNSClient.retry_jitter, in ticks
    resp,               \* _request_*: the response bound last (<<>> unbound)
    delay_call,         \* the latest _retry_delay call (<<>> if none)
    concurrency,        \* args.concurrency
    on_error,           \* args.on_error
    graceful_timeout,   \* args.graceful_timeout, in ticks
    zones_file,         \* lines of args.zones_file, <<>> if it does not exist
    line_no,            \* _run_batch: lines read from handle so far
    queue,              \* _run_batch: items of the asyncio.Queue
    unfinished,         \* the queue's count of items not yet task_done
    put_zone,           \* _run_batch: the zone of a put that is suspended
    sentinels_left,     \* _run_batch: queue.put(None) calls still to make
    workers,            \* _run_batch: the worker tasks
    await_idx,          \* _run_batch: index of the worker task awaited
    success,            \* _run_batch: success
    failed,             \* _run_batch: failed
    stop_event,         \* _run_batch: stop_event.is_set()
    cancelled_workers,  \* _run_batch: cancelled_workers
    main,               \* position of the task running _run_batch
    running,            \* the task the event loop is running ("loop": none)
    interrupt_count,    \* SIGINTs received by asyncio.run
    migrator_closed,    \* migrator.close() was awaited
    exit_code,          \* what main() returned (<<>> while it runs)
    enqueued,           \* zones put on the queue, in order
    migrated,           \* zones passed to migrator.migrate, in order
    domains,            \* examples/mysql: rows of the domains table
    total,              \* examples/mysql: stats.total
    processed,          \* examples/mysql: stats.processed
    skipped,            \* examples/mysql: stats.skipped
    producer,           \* examples/mysql: position of the producer task
    offset,             \* examples/mysql: fetch_domains_producer's offset
    rows,               \* examples/mysql: rows of the batch last fetched
    row_i,              \* examples/mysql: position of "for row in rows"
    prev                \* the completed dry run a second run is compared to

vars == <<ignore_soa_serial, auto_fix_cname_conflicts,
          auto_fix_double_cname_conflicts, warnings, normalize_txt_escapes,
          retries, source_doc, target_doc, recreate,
          dry_run, pc, sanitized, target_zone, changes, result, error,
          requests, attempt, attempts, sleeps, last_error, last_outcome,
          outcomes, retry_backoff, retry_max_backoff, retry_jitter, resp,
          delay_call, concurrency, on_error, graceful_timeout, zones_file,
          line_no, queue, unfinished, put_zone, sentinels_left, workers,
          await_idx, success, failed, stop_event, cancelled_workers, main,
          running, interrupt_count, migrator_closed, exit_code, enqueued,
          migrated, domains, total, processed, skipped, producer, offset,
          rows, row_i, prev>>

----------------------------------------------------------------------------
(* Bounds *)

MaxRRsets == 2     \* rrsets per zone document
MaxRetries == 2    \* largest configured retry count
MaxRetryBackoff == 2     \* largest retry_backoff argument, in ticks
MaxRetryMaxBackoff == 3  \* largest retry_max_backoff argument, in ticks
MaxRetryJitter == 2      \* largest retry_jitter argument, in ticks
MaxRetryAfter == 2       \* largest one-digit Retry-After value, in seconds
MaxLines == 3            \* lines of a zones file
MaxConcurrency == 2      \* largest --concurrency argument
MaxGracefulTimeout == 1  \* largest --graceful-timeout argument, in ticks
MaxDomains == 3          \* rows of the domains table of examples/mysql

\* examples/mysql: the environment's BATCH_SIZE and QUEUE_SIZE, rows fetched
\* by one query and maxsize of the queue; as with the defaults of 5000 and
\* 1000 a batch is larger than the queue
BATCH_SIZE == 3
QUEUE_SIZE == 2

----------------------------------------------------------------------------
(* Generic helpers *)

Range(s) == {s[i] : i \in DOMAIN s}

Get(opt, default) == IF opt = <<>> THEN default ELSE opt[1]

Some(v) == <<v>>

\* Equality of two sorted lists is equality of the multisets of their items.
BagOfSeq(s) == [x \in Range(s) |-> Cardinality({i \in DOMAIN s : s[i] = x})]

MapSeq(s, F(_)) == [i \in DOMAIN s |-> F(s[i])]

----------------------------------------------------------------------------
(* utils.normalize_zone_name *)

EndsWithDot(name) == Len(name) > 0 /\ name[Len(name)] = "."

\* the name returned as it is
normalize_zone_name_as_given(name) == name

normalize_zone_name(name) == IF EndsWithDot(name) THEN name ELSE name \o <<".">>

----------------------------------------------------------------------------
(* Record contents *)

Split(content) == content.parts

Join(parts) == [parts |-> parts, ws |-> FALSE]

_normalize_soa_content(content, serial_override) ==
    LET parts == Split(content) IN
    IF Len(parts) < 7 THEN content
    ELSE IF serial_override # <<>>
         THEN Join([parts EXCEPT ![3] = serial_override[1]])
         ELSE Join(parts)

\* the override applied whatever the value of ignore_soa_serial
_normalize_record_content_always(ignore, rrtype, content) ==
    IF rrtype = "SOA"
    THEN _normalize_soa_content(content, Some("0"))
    ELSE content

_normalize_record_content(ignore, rrtype, content) ==
    IF ignore /\ rrtype = "SOA"
    THEN _normalize_soa_content(content, Some("0"))
    ELSE content

----------------------------------------------------------------------------
(* Rrsets: sanitize, key, semantic equality *)

SanitizeRecord(record) ==
    [content |-> record.content,
     disabled |-> Some(Get(record.disabled, FALSE)),
     priority |-> record.priority]

_sanitize_rrsets(rrsets) ==
    MapSeq(rrsets, LAMBDA rr :
        [name |-> normalize_zone_name(rr.name),
         type |-> rr.type,
         ttl |-> Some(Get(rr.ttl, 3600)),
         records |-> MapSeq(rr.records, SanitizeRecord),
         comments |-> rr.comments])

\* the whitelist with the id of the zone let through
keep_keys_with_id == {"name", "kind", "masters", "nameservers", "account",
                      "soa_edit", "soa_edit_api", "id"}

keep_keys == {"name", "kind", "masters", "nameservers", "account",
              "soa_edit", "soa_edit_api"}

\* rrsets_by_name.items(): the names in the order of their first rrset
RECURSIVE NamesInOrder(_)
NamesInOrder(rrsets) ==
    IF rrsets = <<>> THEN <<>>
    ELSE LET front == NamesInOrder(SubSeq(rrsets, 1, Len(rrsets) - 1))
             name == normalize_zone_name(rrsets[Len(rrsets)].name)
         IN IF name \in Range(front) THEN front ELSE Append(front, name)

\* rrset["records"] = records[:1] for a CNAME rrset of several records
TrimCname(rrset) ==
    IF /\ auto_fix_double_cname_conflicts
       /\ rrset.type = "CNAME" /\ Len(rrset.records) > 1
    THEN [rrset EXCEPT !.records = SubSeq(rrset.records, 1, 1)]
    ELSE rrset

\* one turn of "for name, grouped in rrsets_by_name.items()": what is
\* added to cleaned and what is logged
CnameGroup(rrsets, name, apex_name) ==
    LET before == SelectSeq(rrsets, LAMBDA rr :
                     normalize_zone_name(rr.name) = name)
        trimmed == IF auto_fix_double_cname_conflicts
                   THEN MapSeq(SelectSeq(before, LAMBDA rr :
                                  rr.type = "CNAME" /\ Len(rr.records) > 1),
                               LAMBDA rr : [kind |-> "trim", name |-> name])
                   ELSE <<>>
        grouped == MapSeq(before, TrimCname)
        cname_rrsets == SelectSeq(grouped, LAMBDA rr : rr.type = "CNAME")
        others == SelectSeq(grouped, LAMBDA rr :
                     rr \notin Range(cname_rrsets))
    IN IF cname_rrsets = <<>>
       THEN [cleaned |-> grouped, warnings |-> trimmed]
       ELSE IF name = apex_name
       THEN [cleaned |-> others,
             warnings |-> Append(trimmed, [kind |-> "apex", name |-> name])]
       ELSE IF Len(grouped) > Len(cname_rrsets)
       THEN [cleaned |-> cname_rrsets,
             warnings |-> Append(trimmed, [kind |-> "cname", name |-> name])]
       ELSE [cleaned |-> grouped, warnings |-> trimmed]

RECURSIVE CnameGroups(_, _, _)
CnameGroups(rrsets, names, apex_name) ==
    IF names = <<>> THEN [cleaned |-> <<>>, warnings |-> <<>>]
    ELSE LET first == CnameGroup(rrsets, Head(names), apex_name)
             rest == CnameGroups(rrsets, Tail(names), apex_name)
         IN [cleaned |-> first.cleaned \o rest.cleaned,
             warnings |-> first.warnings \o rest.warnings]

\* every rrset kept and nothing logged
_drop_cname_conflicts_keeps_all(rrsets, zone_name) ==
    [cleaned |-> rrsets, warnings |-> <<>>]

\* the cleaned rrsets it returns and the warnings it logs
_drop_cname_conflicts(rrsets, zone_name) ==
    CnameGroups(rrsets, NamesInOrder(rrsets), normalize_zone_name(zone_name))

_sanitize_zone(zone) ==
    LET rrsets == IF "rrsets" \in DOMAIN zone THEN zone["rrsets"] ELSE <<>>
        name == normalize_zone_name(zone["name"])
        cleaned == _sanitize_rrsets(rrsets)
    IN [key \in (keep_keys \cap DOMAIN zone) \cup {"name", "kind", "rrsets"} |->
          IF key = "name" THEN name
          ELSE IF key = "kind"
               THEN (IF "kind" \in DOMAIN zone THEN zone["kind"] ELSE "Native")
          ELSE IF key = "rrsets"
               THEN (IF auto_fix_cname_conflicts
                     THEN _drop_cname_conflicts(cleaned, name).cleaned
                     ELSE cleaned)
          ELSE zone[key]]

\* what _sanitize_zone logs
SanitizeWarnings(zone) ==
    LET rrsets == IF "rrsets" \in DOMAIN zone THEN zone["rrsets"] ELSE <<>>
    IN IF auto_fix_cname_conflicts
       THEN _drop_cname_conflicts(_sanitize_rrsets(rrsets),
                                  normalize_zone_name(zone["name"])).warnings
       ELSE <<>>

_rrset_key(rrset) == <<normalize_zone_name(rrset.name), rrset.type>>

\* the ttl left out of the comparison
_normalize_rrset_no_ttl(ignore, rrset) ==
    [name |-> normalize_zone_name(rrset.name),
     type |-> rrset.type,
     ttl |-> <<>>,
     records |-> BagOfSeq(MapSeq(rrset.records, LAMBDA record :
                    <<_normalize_record_content(ignore, rrset.type, record.content),
                      Get(record.disabled, FALSE),
                      record.priority>>)),
     comments |-> BagOfSeq(MapSeq(rrset.comments, LAMBDA comment :
                    <<comment.content, Get(comment.disabled, FALSE),
                      comment.account, comment.modified_at>>))]

_normalize_rrset(ignore, rrset) ==
    [name |-> normalize_zone_name(rrset.name),
     type |-> rrset.type,
     ttl |-> rrset.ttl,
     records |-> BagOfSeq(MapSeq(rrset.records, LAMBDA record :
                    <<_normalize_record_content(ignore, rrset.type, record.content),
                      Get(record.disabled, FALSE),
                      record.priority>>)),
     comments |-> BagOfSeq(MapSeq(rrset.comments, LAMBDA comment :
                    <<comment.content, Get(comment.disabled, FALSE),
                      comment.account, comment.modified_at>>))]

_rrset_equal(ignore, source, target) ==
    _normalize_rrset(ignore, source) = _normalize_rrset(ignore, target)

_rrset_change(changetype, rrset) ==
    [name |-> normalize_zone_name(rrset.name),
     type |-> rrset.type,
     changetype |-> changetype,
     ttl |-> Get(rrset.ttl, 3600),
     records |-> rrset.records,
     comments |-> rrset.comments]

\* the source rrset emitted as it is
_preserve_target_soa_serial_keeps_source(source_rrset, target_rrset) ==
    source_rrset

_preserve_target_soa_serial(source_rrset, target_rrset) ==
    LET target_records == target_rrset.records IN
    IF target_records = <<>> THEN source_rrset
    ELSE LET target_parts == Split(target_records[1].content) IN
         IF Len(target_parts) < 7 THEN source_rrset
         ELSE [source_rrset EXCEPT !.records =
                 MapSeq(source_rrset.records, LAMBDA record :
                    [record EXCEPT !.content =
                        _normalize_soa_content(record.content,
                                               Some(target_parts[3]))])]

----------------------------------------------------------------------------
(* Python dict built by {key(rr): rr for rr in rrsets}: keys keep the order *)
(* of their first insertion, the value is the last one inserted.            *)

RECURSIVE DictKeys(_)
DictKeys(rrsets) ==
    IF rrsets = <<>> THEN <<>>
    ELSE LET front == DictKeys(SubSeq(rrsets, 1, Len(rrsets) - 1))
             key == _rrset_key(rrsets[Len(rrsets)])
         IN IF key \in Range(front) THEN front ELSE Append(front, key)

DictGet(rrsets, key) ==
    rrsets[CHOOSE i \in DOMAIN rrsets :
              /\ _rrset_key(rrsets[i]) = key
              /\ \A j \in DOMAIN rrsets : _rrset_key(rrsets[j]) = key => j <= i]

ZoneRRsets(zone) == IF "rrsets" \in DOMAIN zone THEN zone["rrsets"] ELSE <<>>

\* the loop over the source keys without `if target_rrset is None: continue`
_build_changes_no_continue(ignore, source_zone, tgt_zone) ==
    LET src == ZoneRRsets(source_zone)
        tgt == ZoneRRsets(tgt_zone)
        skeys == DictKeys(src)
        tkeys == DictKeys(tgt)
        deletes == MapSeq(SelectSeq(tkeys, LAMBDA k : k \notin Range(skeys)),
                          LAMBDA k : _rrset_change("DELETE", DictGet(tgt, k)))
        updates == MapSeq(SelectSeq(skeys, LAMBDA k :
                             k \notin Range(tkeys)
                             \/ ~ _rrset_equal(ignore, DictGet(src, k), DictGet(tgt, k))),
                          LAMBDA k :
                             LET source_rrset == DictGet(src, k)
                                 target_rrset == IF k \in Range(tkeys)
                                                 THEN DictGet(tgt, k)
                                                 ELSE source_rrset
                             IN _rrset_change("REPLACE",
                                   IF ignore /\ source_rrset.type = "SOA"
                                   THEN _preserve_target_soa_serial(source_rrset,
                                                                    target_rrset)
                                   ELSE source_rrset))
        creates == MapSeq(SelectSeq(skeys, LAMBDA k : k \notin Range(tkeys)),
                          LAMBDA k : _rrset_change("REPLACE", DictGet(src, k)))
    IN deletes \o updates \o creates

\* `if self._rrset_equal(...)` instead of `if not self._rrset_equal(...)`
_build_changes_no_not(ignore, source_zone, tgt_zone) ==
    LET src == ZoneRRsets(source_zone)
        tgt == ZoneRRsets(tgt_zone)
        skeys == DictKeys(src)
        tkeys == DictKeys(tgt)
        deletes == MapSeq(SelectSeq(tkeys, LAMBDA k : k \notin Range(skeys)),
                          LAMBDA k : _rrset_change("DELETE", DictGet(tgt, k)))
        updates == MapSeq(SelectSeq(skeys, LAMBDA k :
                             k \in Range(tkeys)
                             /\ _rrset_equal(ignore, DictGet(src, k), DictGet(tgt, k))),
                          LAMBDA k :
                             LET source_rrset == DictGet(src, k)
                                 target_rrset == DictGet(tgt, k)
                             IN _rrset_change("REPLACE",
                                   IF ignore /\ source_rrset.type = "SOA"
                                   THEN _preserve_target_soa_serial(source_rrset,
                                                                    target_rrset)
                                   ELSE source_rrset))
        creates == MapSeq(SelectSeq(skeys, LAMBDA k : k \notin Range(tkeys)),
                          LAMBDA k : _rrset_change("REPLACE", DictGet(src, k)))
    IN deletes \o updates \o creates

\* return creates + updates + deletes
_build_changes_creates_first(ignore, source_zone, tgt_zone) ==
    LET src == ZoneRRsets(source_zone)
        tgt == ZoneRRsets(tgt_zone)
        skeys == DictKeys(src)
        tkeys == DictKeys(tgt)
        deletes == MapSeq(SelectSeq(tkeys, LAMBDA k : k \notin Range(skeys)),
                          LAMBDA k : _rrset_change("DELETE", DictGet(tgt, k)))
        updates == MapSeq(SelectSeq(skeys, LAMBDA k :
                             k \in Range(tkeys)
                             /\ ~ _rrset_equal(ignore, DictGet(src, k), DictGet(tgt, k))),
                          LAMBDA k :
                             LET source_rrset == DictGet(src, k)
                                 target_rrset == DictGet(tgt, k)
                             IN _rrset_change("REPLACE",
                                   IF ignore /\ source_rrset.type = "SOA"
                                   THEN _preserve_target_soa_serial(source_rrset,
                                                                    target_rrset)
                                   ELSE source_rrset))
        creates == MapSeq(SelectSeq(skeys, LAMBDA k : k \notin Range(tkeys)),
                          LAMBDA k : _rrset_change("REPLACE", DictGet(src, k)))
    IN creates \o updates \o deletes

_build_changes(ignore, source_zone, tgt_zone) ==
    LET src == ZoneRRsets(source_zone)
        tgt == ZoneRRsets(tgt_zone)
        skeys == DictKeys(src)
        tkeys == DictKeys(tgt)
        deletes == MapSeq(SelectSeq(tkeys, LAMBDA k : k \notin Range(skeys)),
                          LAMBDA k : _rrset_change("DELETE", DictGet(tgt, k)))
        updates == MapSeq(SelectSeq(skeys, LAMBDA k :
                             k \in Range(tkeys)
                             /\ ~ _rrset_equal(ignore, DictGet(src, k), DictGet(tgt, k))),
                          LAMBDA k :
                             LET source_rrset == DictGet(src, k)
                                 target_rrset == DictGet(tgt, k)
                             IN _rrset_change("REPLACE",
                                   IF ignore /\ source_rrset.type = "SOA"
                                   THEN _preserve_target_soa_serial(source_rrset,
                                                                    target_rrset)
                                   ELSE source_rrset))
        creates == MapSeq(SelectSeq(skeys, LAMBDA k : k \notin Range(tkeys)),
                          LAMBDA k : _rrset_change("REPLACE", DictGet(src, k)))
    IN deletes \o updates \o creates

----------------------------------------------------------------------------
(* AsyncPowerDNSClient: the retry loop of _request_json and _request_ok *)

\* self.retries = max(0, retries)
ClientRetries(arg) == IF arg > 0 THEN arg ELSE 0

\* any status of 500 and above taken for retryable
_should_retry_status_5xx(status) == status \in {408, 429} \/ status >= 500

_should_retry_status(status) == status \in {408, 429, 500, 502, 503, 504}

\* What one pass of `for attempt in range(self.retries + 1)` decides, for the
\* loop variable a, self.retries r and an HTTP attempt that ended in a
\* transport error (kind "transport") or in a response with the given status
\* (kind "response"):
\*   "retry"       sleep, then the next pass
\*   "raise_api"   raise PowerDNSAPIError
\*   "return"      return to the caller
\*   "raise_conn"  break, raise PowerDNSConnectionError
\*   "exhausted"   sleep, the range is used up, raise PowerDNSConnectionError

\* a retry budget that is one too large: `attempt <= self.retries` in the
\* two tests and range(self.retries + 2)
_request_json_off_by_one(a, r, kind, status) ==
    LET pass == IF kind = "response"
                THEN IF _should_retry_status(status) /\ a <= r THEN "retry"
                     ELSE IF status >= 400 THEN "raise_api"
                     ELSE "return"
                ELSE IF a > r THEN "raise_conn" ELSE "retry"
    IN IF pass = "retry" /\ ~(a + 1 < r + 2) THEN "exhausted" ELSE pass

\* a retryable status on the last permitted pass reported like a transport
\* failure: the loop falls through to the raise after it
_request_json_wraps(a, r, kind, status) ==
    LET pass == IF kind = "response"
                THEN IF _should_retry_status(status)
                     THEN IF a < r THEN "retry" ELSE "raise_conn"
                     ELSE IF status >= 400 THEN "raise_api"
                     ELSE "return"
                ELSE IF a >= r THEN "raise_conn" ELSE "retry"
    IN IF pass = "retry" /\ ~(a + 1 < r + 1) THEN "exhausted" ELSE pass

_request_json(a, r, kind, status) ==
    LET pass == IF kind = "response"
                THEN IF _should_retry_status(status) /\ a < r THEN "retry"
                     ELSE IF status >= 400 THEN "raise_api"
                     ELSE "return"
                ELSE IF a >= r THEN "raise_conn" ELSE "retry"
    IN IF pass = "retry" /\ ~(a + 1 < r + 1) THEN "exhausted" ELSE pass

\* the transport branch giving up one pass early: `attempt + 1 >= retries`
_request_ok_breaks_early(a, r, kind, status) ==
    LET pass == IF kind = "response"
                THEN IF _should_retry_status(status) /\ a < r THEN "retry"
                     ELSE IF status >= 400 THEN "raise_api"
                     ELSE "return"
                ELSE IF a + 1 >= r THEN "raise_conn" ELSE "retry"
    IN IF pass = "retry" /\ ~(a + 1 < r + 1) THEN "exhausted" ELSE pass

_request_ok(a, r, kind, status) ==
    LET pass == IF kind = "response"
                THEN IF _should_retry_status(status) /\ a < r THEN "retry"
                     ELSE IF status >= 400 THEN "raise_api"
                     ELSE "return"
                ELSE IF a >= r THEN "raise_conn" ELSE "retry"
    IN IF pass = "retry" /\ ~(a + 1 < r + 1) THEN "exhausted" ELSE pass

----------------------------------------------------------------------------
(* AsyncPowerDNSClient._retry_delay.  Seconds are counted in ticks of      *)
(* 1 / TicksPerSecond; a header value is a str, a sequence of characters.  *)

TicksPerSecond == 2

Min(a, b) == IF a <= b THEN a ELSE b
Max(a, b) == IF a >= b THEN a ELSE b

RECURSIVE Pow2(_)
Pow2(n) == IF n = 0 THEN 1 ELSE 2 * Pow2(n - 1)

\* max(0.0, arg) of __init__
ClientSeconds(arg) == Max(0, arg)

DigitChars == <<"0", "1", "2", "3", "4", "5", "6", "7", "8", "9">>

\* str.isdigit(): not empty, every character a digit
isdigit(str) ==
    /\ str # <<>>
    /\ \A i \in DOMAIN str : str[i] \in Range(DigitChars)

DigitValue(c) == CHOOSE d \in 0..9 : DigitChars[d + 1] = c

\* float(str) of a str of digits, in ticks
RECURSIVE float(_)
float(str) ==
    IF str = <<>> THEN 0
    ELSE 10 * float(SubSeq(str, 1, Len(str) - 1))
         + TicksPerSecond * DigitValue(str[Len(str)])

\* the backoff without the cap: retry_backoff * (2**attempt)
_retry_delay_backoff_uncapped(backoff, max_backoff, jitter, a, uniform) ==
    LET delay == backoff * Pow2(a)
    IN IF jitter > 0 THEN delay + uniform ELSE delay

\* delay = min(self.retry_max_backoff, self.retry_backoff * (2**attempt))
\* if self.retry_jitter > 0: delay += random.uniform(0, self.retry_jitter)
\* uniform is the number random.uniform returns
_retry_delay_backoff(backoff, max_backoff, jitter, a, uniform) ==
    LET delay == Min(max_backoff, backoff * Pow2(a))
    IN IF jitter > 0 THEN delay + uniform ELSE delay

\* a numeric header taken in place of the delay, whatever the two values
_retry_delay_header_wins(backoff, max_backoff, jitter, a, uniform, response) ==
    LET delay == _retry_delay_backoff(backoff, max_backoff, jitter, a, uniform)
        retry_after == IF response = <<>> THEN <<>> ELSE response[1]
    IN IF response # <<>> /\ retry_after # <<>> /\ retry_after[1] # <<>>
          /\ isdigit(retry_after[1])
       THEN float(retry_after[1])
       ELSE delay

\* response is the resp argument: <<>> for None, else <<h>> with h the
\* value of resp.headers.get("Retry-After"), <<>> or <<str>>
_retry_delay(backoff, max_backoff, jitter, a, uniform, response) ==
    LET delay == _retry_delay_backoff(backoff, max_backoff, jitter, a, uniform)
        retry_after == IF response = <<>> THEN <<>> ELSE response[1]
    IN IF response # <<>> /\ retry_after # <<>> /\ retry_after[1] # <<>>
          /\ isdigit(retry_after[1])
       THEN Max(delay, float(retry_after[1]))
       ELSE delay

----------------------------------------------------------------------------
(* Zone documents the two servers can serve *)

Apex == <<"ex", ".">>
ApexNoDot == <<"ex">>
Www == <<"www", ".", "ex", ".">>
WwwNoDot == <<"www", ".", "ex">>

Text(s) == [parts |-> <<s>>, ws |-> FALSE]

Soa(serial, minimum, ws) ==
    [parts |-> <<"ns", "admin", serial, "10800", "3600", "604800", minimum>>,
     ws |-> ws]

SoaShort(serial) ==
    [parts |-> <<"ns", "admin", serial, "10800", "3600", "604800">>,
     ws |-> FALSE]

Rec(content) == [content |-> content, disabled |-> Some(FALSE), priority |-> <<>>]

RRset(name, type, ttl, records) ==
    [name |-> name, type |-> type, ttl |-> ttl, records |-> records,
     comments |-> <<>>]

Comment1 == [content |-> "note", disabled |-> <<>>, account |-> Some("ops"),
             modified_at |-> Some(7)]

SoaPool ==
    {RRset(Apex, "SOA", Some(3600), <<Rec(c)>>) :
        c \in {Soa("1", "60", FALSE), Soa("2", "60", FALSE),
               Soa("1", "90", TRUE), SoaShort("1")}}
    \cup {RRset(Apex, "SOA", Some(3600), <<>>)}

APool ==
    {RRset(Www, "A", Some(3600), rs) :
        rs \in {<<Rec(Text("1.1.1.1"))>>,
                <<Rec(Text("1.1.1.1")), Rec(Text("2.2.2.2"))>>,
                <<Rec(Text("2.2.2.2")), Rec(Text("1.1.1.1"))>>}}
    \cup {RRset(Www, "A", Some(300), <<Rec(Text("1.1.1.1"))>>),
          RRset(WwwNoDot, "A", <<>>,
                <<[content |-> Text("1.1.1.1"), disabled |-> <<>>,
                   priority |-> <<>>],
                  [content |-> Text("1.1.1.1"), disabled |-> <<>>,
                   priority |-> <<>>]>>)}

MxPool ==
    {[RRset(Apex, "MX", Some(3600),
            <<[content |-> Text("mail"), disabled |-> Some(d),
               priority |-> Some(10)]>>) EXCEPT !.comments = cs] :
        <<d, cs>> \in {<<FALSE, <<>>>>, <<TRUE, <<Comment1>>>>}}

RRsetPool == SoaPool \cup APool \cup MxPool

\* the smaller pools of the migrate runs
SourceCorePool ==
    {RRset(Apex, "SOA", Some(3600), <<Rec(Soa("1", "60", FALSE))>>),
     RRset(WwwNoDot, "A", <<>>,
           <<[content |-> Text("1.1.1.1"), disabled |-> <<>>,
              priority |-> <<>>]>>)}

TargetCorePool ==
    {RRset(Apex, "SOA", Some(3600), <<Rec(Soa(serial, "60", FALSE))>>) :
        serial \in {"1", "2"}}
    \cup {RRset(Www, "A", Some(3600), <<Rec(Text("1.1.1.1"))>>)}

\* The rrset lists of a zone: an rrset is all the records of one (name, type).
RRsetLists(pool, n) ==
    UNION {{rrsets \in [1..len -> pool] :
              \A i, j \in 1..len :
                 (/\ normalize_zone_name(rrsets[i].name)
                       = normalize_zone_name(rrsets[j].name)
                  /\ rrsets[i].type = rrsets[j].type) => i = j} :
           len \in 0..n}

\* a source document without kind, its name without the trailing dot
PlainSourceDocs(pool) ==
    {[name |-> ApexNoDot, id |-> "ex.", rrsets |-> rrsets] :
        rrsets \in RRsetLists(pool, MaxRRsets)}

\* a source document with whitelisted and other top-level keys
MasterSourceDocs(pool) ==
    {[name |-> Apex, kind |-> "Master", account |-> "acct", serial |-> 5,
      rrsets |-> rrsets] : rrsets \in RRsetLists(pool, MaxRRsets)}

TargetDocs(pool) ==
    {[name |-> Apex, kind |-> "Native", id |-> "ex.", rrsets |-> rrsets] :
        rrsets \in RRsetLists(pool, MaxRRsets)}

----------------------------------------------------------------------------
(* The diff on its own: _sanitize_zone and _build_changes applied to every  *)
(* pair of documents of the pool.                                           *)

\* the retry delays, which the specifications of the diff and of migrate
\* leave out: no delay is computed in them
Delays == <<retry_backoff, retry_max_backoff, retry_jitter, resp, delay_call>>

NoDelays ==
    /\ retry_backoff = 0 /\ retry_max_backoff = 0 /\ retry_jitter = 0
    /\ resp = <<>> /\ delay_call = <<>>

\* the batch run, which the specifications of a single migration leave out
\* the CNAME policy of the migrator and what it logged; cli.py builds the
\* migrator without the two flags, which are False by default
Options == <<auto_fix_cname_conflicts, auto_fix_double_cname_conflicts,
             warnings, normalize_txt_escapes>>

NoOptions ==
    /\ auto_fix_cname_conflicts = FALSE
    /\ auto_fix_double_cname_conflicts = FALSE
    /\ warnings = <<>>
    /\ normalize_txt_escapes = <<>>

RunArgs == <<concurrency, on_error, graceful_timeout, zones_file>>

\* the arguments of a batch run, with the options of its migrator
BatchArgs == <<RunArgs, Options>>

\* what only the batch run of examples/mysql/migrate.py has
Example == <<domains, total, processed, skipped, producer, offset, rows,
             row_i>>

ExampleNotStarted ==
    /\ total = 0 /\ processed = 0 /\ skipped = 0
    /\ producer = "none" /\ offset = 0 /\ rows = <<>> /\ row_i = 0

NoExample == domains = 0 /\ ExampleNotStarted

BatchState == <<line_no, queue, unfinished, put_zone, sentinels_left,
                workers, await_idx, success, failed, stop_event,
                cancelled_workers, main, running, interrupt_count,
                migrator_closed, exit_code, enqueued, migrated, Example>>

Batch == <<BatchArgs, BatchState>>

BatchNotStarted ==
    /\ line_no = 0 /\ queue = <<>> /\ unfinished = 0 /\ put_zone = <<>>
    /\ sentinels_left = 0 /\ workers = <<>> /\ await_idx = 0
    /\ success = 0 /\ failed = 0
    /\ stop_event = FALSE /\ cancelled_workers = FALSE
    /\ main = "start" /\ running = "loop" /\ interrupt_count = 0
    /\ migrator_closed = FALSE /\ exit_code = <<>>
    /\ enqueued = <<>> /\ migrated = <<>>

NoBatch ==
    /\ concurrency = 1 /\ on_error = "continue" /\ graceful_timeout = 0
    /\ zones_file = <<>>
    /\ NoOptions
    /\ BatchNotStarted /\ NoExample

NoCall ==
    /\ attempt = 0 /\ attempts = 0 /\ sleeps = 0
    /\ last_error = <<>> /\ last_outcome = <<>> /\ outcomes = <<>>

InitDiff ==
    /\ ignore_soa_serial \in BOOLEAN
    /\ source_doc \in PlainSourceDocs(RRsetPool)
    /\ target_doc \in TargetDocs(RRsetPool)
    /\ retries = 0 /\ recreate = FALSE /\ dry_run = TRUE
    /\ pc = "diff_input"
    /\ sanitized = <<>> /\ target_zone = <<>> /\ changes = <<>>
    /\ result = <<>> /\ error = <<>> /\ requests = <<>> /\ prev = <<>>
    /\ NoCall /\ NoDelays /\ NoBatch

\* changes = self._build_changes(zone, sanitized, target_zone)
Diff ==
    /\ pc = "diff_input"
    /\ sanitized' = _sanitize_zone(source_doc)
    /\ target_zone' = target_doc
    /\ changes' = _build_changes(ignore_soa_serial, sanitized', target_zone')
    /\ pc' = "diff_done"
    /\ UNCHANGED <<ignore_soa_serial, retries, source_doc, target_doc, recreate,
                   dry_run, result, error, requests, attempt, attempts, sleeps,
                   last_error, last_outcome, outcomes, Delays, Batch, prev>>

\* the same with the sanitized source on both sides
DiffSelf ==
    /\ pc = "diff_input"
    /\ sanitized' = _sanitize_zone(source_doc)
    /\ target_zone' = sanitized'
    /\ changes' = _build_changes(ignore_soa_serial, sanitized', target_zone')
    /\ pc' = "diff_self_done"
    /\ UNCHANGED <<ignore_soa_serial, retries, source_doc, target_doc, recreate,
                   dry_run, result, error, requests, attempt, attempts, sleeps,
                   last_error, last_outcome, outcomes, Delays, Batch, prev>>

NextDiff == Diff \/ DiffSelf

SpecDiff == InitDiff /\ [][NextDiff]_vars

----------------------------------------------------------------------------
(* _sanitize_zone on its own, under every setting of the CNAME policy *)

MaxSanitizeRRsets == 4   \* rrsets per zone document given to the sanitizer

Cname(name, ttl, targets) ==
    RRset(name, "CNAME", ttl, MapSeq(targets, LAMBDA t : Rec(Text(t))))

CnamePool ==
    {RRset(Apex, "SOA", Some(3600), <<Rec(Soa("1", "60", FALSE))>>),
     Cname(Apex, Some(3600), <<"t1">>),
     Cname(ApexNoDot, <<>>, <<"t1", "t2">>),
     Cname(Www, Some(3600), <<"t1">>),
     Cname(WwwNoDot, <<>>, <<"t1", "t2">>),
     RRset(Www, "A", Some(3600), <<Rec(Text("1.1.1.1"))>>),
     RRset(WwwNoDot, "TXT", <<>>, <<Rec(Text("v=spf1"))>>)}

InitSanitize ==
    /\ auto_fix_cname_conflicts \in BOOLEAN
    /\ auto_fix_double_cname_conflicts \in BOOLEAN
    /\ warnings = <<>>
    /\ normalize_txt_escapes = <<>>
    /\ ignore_soa_serial = FALSE
    /\ source_doc \in
          {[name |-> ApexNoDot, id |-> "ex.", rrsets |-> rrsets] :
              rrsets \in RRsetLists(CnamePool, MaxSanitizeRRsets)}
          \cup {[name |-> Apex, kind |-> "Master", account |-> "acct",
                  serial |-> 5, rrsets |-> rrsets] :
                     rrsets \in RRsetLists(CnamePool, MaxSanitizeRRsets)}
          \cup {[name |-> ApexNoDot, masters |-> <<>>, dnssec |-> FALSE]}
    /\ target_doc = <<>>
    /\ retries = 0 /\ recreate = FALSE /\ dry_run = TRUE
    /\ pc = "sanitize_input"
    /\ sanitized = <<>> /\ target_zone = <<>> /\ changes = <<>>
    /\ result = <<>> /\ error = <<>> /\ requests = <<>> /\ prev = <<>>
    /\ NoCall /\ NoDelays
    /\ concurrency = 1 /\ on_error = "continue" /\ graceful_timeout = 0
    /\ zones_file = <<>>
    /\ BatchNotStarted /\ NoExample

\* sanitized = self._sanitize_zone(source_zone)
Sanitize ==
    /\ pc = "sanitize_input"
    /\ sanitized' = _sanitize_zone(source_doc)
    /\ warnings' = SanitizeWarnings(source_doc)
    /\ pc' = "sanitize_done"
    /\ UNCHANGED <<ignore_soa_serial, auto_fix_cname_conflicts,
                   auto_fix_double_cname_conflicts, normalize_txt_escapes,
                   retries, source_doc,
                   target_doc, recreate, dry_run, target_zone, changes,
                   result, error, requests, attempt, attempts, sleeps,
                   last_error, last_outcome, outcomes, Delays, RunArgs,
                   BatchState, prev>>

NextSanitize == Sanitize

SpecSanitize == InitSanitize /\ [][NextSanitize]_vars

----------------------------------------------------------------------------
(* AsyncZoneMigrator built with the keywords of its callers, and TXT *)
(* contents with escapes                                              *)

\* a TXT content, one token of these chunks
Txt(chunks) == [parts |-> <<chunks>>, ws |-> FALSE]

\* "a\;b" and "a\;b"
TxtSingle == Txt(<<"\"a", "\\", ";b\"">>)
TxtDouble == Txt(<<"\"a", "\\", "\\", ";b\"">>)

TxtPool ==
    {RRset(name, "TXT", Some(3600), <<Rec(content)>>) :
        name \in {Apex, Www}, content \in {TxtSingle, TxtDouble}}

InitTxt ==
    /\ normalize_txt_escapes \in {<<>>, <<FALSE>>, <<TRUE>>}
    /\ auto_fix_cname_conflicts = FALSE
    /\ auto_fix_double_cname_conflicts = FALSE
    /\ warnings = <<>>
    /\ ignore_soa_serial \in BOOLEAN
    /\ source_doc \in PlainSourceDocs(TxtPool)
    /\ target_doc \in TargetDocs(TxtPool)
    /\ retries = 0 /\ recreate = FALSE /\ dry_run = TRUE
    /\ pc = "build_migrator"
    /\ sanitized = <<>> /\ target_zone = <<>> /\ changes = <<>>
    /\ result = <<>> /\ error = <<>> /\ requests = <<>> /\ prev = <<>>
    /\ NoCall /\ NoDelays
    /\ concurrency = 1 /\ on_error = "continue" /\ graceful_timeout = 0
    /\ zones_file = <<>>
    /\ BatchNotStarted /\ NoExample

\* AsyncZoneMigrator(source, target, ..., normalize_txt_escapes=...):
\* __init__ has no parameter of that name and no **kwargs, so the call
\* raises TypeError when the keyword is given
build_migrator ==
    /\ pc = "build_migrator"
    /\ IF normalize_txt_escapes # <<>>
       THEN /\ pc' = "raised"
            /\ error' = Some([type |-> "TypeError"])
       ELSE /\ pc' = "diff_input"
            /\ error' = error
    /\ UNCHANGED <<ignore_soa_serial, retries, source_doc, target_doc, recreate,
                   dry_run, sanitized, target_zone, changes, result, requests,
                   attempt, attempts, sleeps, last_error, last_outcome,
                   outcomes, Delays, Batch, prev>>

NextTxt == build_migrator \/ Diff

SpecTxt == InitTxt /\ [][NextTxt]_vars

----------------------------------------------------------------------------

(* Properties of the diff *)

OpKey(op) == <<op.name, op.type>>

OpsFor(key) == {i \in DOMAIN changes : OpKey(changes[i]) = key}

KeysOf(zone) == {<<normalize_zone_name(rr.name), rr.type>> : rr \in Range(ZoneRRsets(zone))}

RRsetAt(zone, key) ==
    CHOOSE rr \in Range(ZoneRRsets(zone)) :
        <<normalize_zone_name(rr.name), rr.type>> = key

DiffComputed == pc \in {"diff_done", "diff_self_done"}

\* C6: the change set holds exactly one DELETE per key of T \ S, exactly one
\* REPLACE per key of S \cap T whose rrsets are not semantically equal, exactly
\* one REPLACE per key of S \ T, and nothing else.
C6_ChangeSetShape ==
    DiffComputed =>
        LET S == KeysOf(sanitized)
            T == KeysOf(target_zone)
        IN /\ \A i \in DOMAIN changes : OpKey(changes[i]) \in S \cup T
           /\ \A key \in T \ S :
                 /\ Cardinality(OpsFor(key)) = 1
                 /\ \A i \in OpsFor(key) : changes[i].changetype = "DELETE"
           /\ \A key \in S \ T :
                 /\ Cardinality(OpsFor(key)) = 1
                 /\ \A i \in OpsFor(key) : changes[i].changetype = "REPLACE"
           /\ \A key \in S \cap T :
                 IF _rrset_equal(ignore_soa_serial, RRsetAt(sanitized, key),
                                 RRsetAt(target_zone, key))
                 THEN OpsFor(key) = {}
                 ELSE /\ Cardinality(OpsFor(key)) = 1
                      /\ \A i \in OpsFor(key) : changes[i].changetype = "REPLACE"

\* a diff with a key only on the target, a key only in the source and a
\* shared key that differs
C6_Witness ==
    /\ pc = "diff_done"
    /\ KeysOf(target_zone) \ KeysOf(sanitized) # {}
    /\ KeysOf(sanitized) \ KeysOf(target_zone) # {}
    /\ \E key \in KeysOf(sanitized) \cap KeysOf(target_zone) : OpsFor(key) # {}
    /\ Len(changes) = 3

\* What the server does with a PATCH: DELETE removes the keyed rrset, REPLACE
\* sets it.
ApplyOp(zone_map, op) ==
    IF op.changetype = "DELETE"
    THEN [key \in DOMAIN zone_map \ {OpKey(op)} |-> zone_map[key]]
    ELSE [key \in DOMAIN zone_map \cup {OpKey(op)} |->
            IF key = OpKey(op)
            THEN [name |-> op.name, type |-> op.type, ttl |-> Some(op.ttl),
                  records |-> op.records, comments |-> op.comments]
            ELSE zone_map[key]]

RECURSIVE ApplyChanges(_, _)
ApplyChanges(zone_map, ops) ==
    IF ops = <<>> THEN zone_map
    ELSE ApplyChanges(ApplyOp(zone_map, Head(ops)), Tail(ops))

ZoneMap(zone) == [key \in KeysOf(zone) |-> RRsetAt(zone, key)]

\* an rrset as a value: name, type, ttl, the multiset of its records and the
\* multiset of its comments; SOA contents up to the serial when ignore is set
RRsetValue(ignore, rr) ==
    [name |-> normalize_zone_name(rr.name),
     type |-> rr.type,
     ttl |-> Get(rr.ttl, 3600),
     records |-> BagOfSeq(MapSeq(rr.records, LAMBDA record :
                    <<IF ignore /\ rr.type = "SOA" /\ Len(record.content.parts) >= 7
                      THEN [parts |-> [record.content.parts EXCEPT ![3] = "0"],
                            ws |-> FALSE]
                      ELSE record.content,
                      Get(record.disabled, FALSE), record.priority>>)),
     comments |-> BagOfSeq(rr.comments)]

Patched == ApplyChanges(ZoneMap(target_zone), changes)

PatchedEquals(ignore) ==
    /\ DOMAIN Patched = KeysOf(sanitized)
    /\ \A key \in KeysOf(sanitized) :
          RRsetValue(ignore, Patched[key]) = RRsetValue(ignore, RRsetAt(sanitized, key))

\* C7 as stated: the patched target equals the sanitized source.
C7_Original == DiffComputed => PatchedEquals(FALSE)

\* C7 amended: the patched target equals the sanitized source rrset by rrset,
\* up to the serial of SOA contents when ignore_soa_serial is enabled.
C7_DiffComplete == DiffComputed => PatchedEquals(ignore_soa_serial)

\* a patch that replaces an SOA under ignore_soa_serial and leaves the
\* target with a serial other than the source's
C7_Witness ==
    /\ pc = "diff_done"
    /\ ignore_soa_serial
    /\ \E i \in DOMAIN changes :
          changes[i].type = "SOA" /\ changes[i].changetype = "REPLACE"
    /\ ~ PatchedEquals(FALSE)

\* C8: identical rrsets on both sides give an empty change set, and so does
\* the diff of a sanitized zone against itself.
C8_DiffMinimal ==
    /\ (pc = "diff_done" /\ ZoneRRsets(sanitized) = ZoneRRsets(target_zone))
          => changes = <<>>
    /\ pc = "diff_self_done" => changes = <<>>

C8_Witness ==
    /\ pc = "diff_done"
    /\ ZoneRRsets(sanitized) = ZoneRRsets(target_zone)
    /\ Len(ZoneRRsets(sanitized)) >= 2

\* two SOA contents of seven fields or more that are the same but for the
\* serial, the third field
SerialOnly(a, b) ==
    /\ Len(a.parts) >= 7 /\ Len(b.parts) = Len(a.parts)
    /\ \A i \in DOMAIN a.parts : i # 3 => a.parts[i] = b.parts[i]

\* two SOA rrsets that differ in the serial of a record and in nothing else
DifferOnlyInSerial(source, target) ==
    /\ source.type = "SOA" /\ target.type = "SOA"
    /\ normalize_zone_name(source.name) = normalize_zone_name(target.name)
    /\ source.ttl = target.ttl
    /\ source.comments = target.comments
    /\ Len(source.records) = Len(target.records)
    /\ \A i \in DOMAIN source.records :
          /\ SerialOnly(source.records[i].content, target.records[i].content)
          /\ Get(source.records[i].disabled, FALSE)
                = Get(target.records[i].disabled, FALSE)
          /\ source.records[i].priority = target.records[i].priority
    /\ \E i \in DOMAIN source.records :
          source.records[i].content.parts[3] # target.records[i].content.parts[3]

SerialOnlyKeys ==
    {key \in KeysOf(sanitized) \cap KeysOf(target_zone) :
        DifferOnlyInSerial(RRsetAt(sanitized, key), RRsetAt(target_zone, key))}

\* C24: for an SOA rrset of the source and one of the target that differ
\* only in the serial, the diff holds no operation for the SOA key when
\* ignore_soa_serial is enabled and one REPLACE when it is disabled.
C24_SerialIgnored ==
    pc = "diff_done" =>
        \A key \in SerialOnlyKeys :
            IF ignore_soa_serial
            THEN OpsFor(key) = {}
            ELSE /\ Cardinality(OpsFor(key)) = 1
                 /\ \A i \in OpsFor(key) : changes[i].changetype = "REPLACE"

\* a diff under ignore_soa_serial of two zones whose SOA rrsets differ only
\* in the serial, with another rrset that does change
C24_Witness ==
    /\ pc = "diff_done" /\ ignore_soa_serial
    /\ SerialOnlyKeys # {}
    /\ changes # <<>>

\* an SOA content with a serial: seven fields or more
HasSerial(content) == Len(content.parts) >= 7

\* the SOA keys of the target whose first record has a serial
TargetSerialKeys ==
    {key \in KeysOf(target_zone) :
        /\ key[2] = "SOA"
        /\ RRsetAt(target_zone, key).records # <<>>
        /\ HasSerial(RRsetAt(target_zone, key).records[1].content)}

TargetSerial(key) == RRsetAt(target_zone, key).records[1].content.parts[3]

\* C25: under ignore_soa_serial every REPLACE of an SOA rrset that the
\* target has carries, in each of its records, the serial of the target
\* and the other fields of the source, and the patched target keeps its
\* serial.
C25_TargetSerialKept ==
    (pc = "diff_done" /\ ignore_soa_serial) =>
        \A key \in TargetSerialKeys :
            /\ \A i \in OpsFor(key) :
                  changes[i].changetype = "REPLACE" =>
                      LET source == RRsetAt(sanitized, key)
                          op == changes[i]
                      IN /\ Len(op.records) = Len(source.records)
                         /\ \A j \in DOMAIN op.records :
                               HasSerial(source.records[j].content) =>
                                   /\ op.records[j].content.parts
                                        = [source.records[j].content.parts
                                              EXCEPT ![3] = TargetSerial(key)]
                                   /\ op.records[j].disabled
                                        = source.records[j].disabled
                                   /\ op.records[j].priority
                                        = source.records[j].priority
            /\ key \in DOMAIN Patched =>
                  \A j \in DOMAIN Patched[key].records :
                      HasSerial(Patched[key].records[j].content) =>
                          Patched[key].records[j].content.parts[3]
                            = TargetSerial(key)

\* an SOA of the source that differs from the target's in the serial and
\* in another field, and is replaced
C25_Witness ==
    /\ pc = "diff_done" /\ ignore_soa_serial
    /\ \E key \in TargetSerialKeys :
          /\ \E i \in OpsFor(key) : changes[i].changetype = "REPLACE"
          /\ \E j \in DOMAIN RRsetAt(sanitized, key).records :
                /\ HasSerial(RRsetAt(sanitized, key).records[j].content)
                /\ RRsetAt(sanitized, key).records[j].content.parts[3]
                     # TargetSerial(key)

----------------------------------------------------------------------------
(* Properties of the sanitizer *)

TypesAt(rrsets, name) ==
    {rr.type : rr \in {r \in Range(rrsets) :
                          normalize_zone_name(r.name) = name}}

NamesOf(rrsets) == {normalize_zone_name(rr.name) : rr \in Range(rrsets)}

SourceRRsets == ZoneRRsets(source_doc)

\* C26: under auto_fix_cname_conflicts the sanitized apex has the types of
\* the source's apex but CNAME, every other name that has a CNAME in the
\* source has the CNAME and nothing else, every name without a CNAME keeps
\* its types, and a warning is logged for every name that lost an rrset.
C26_CnamePolicy ==
    (pc = "sanitize_done" /\ auto_fix_cname_conflicts) =>
        LET apex == sanitized["name"]
            cleaned == sanitized["rrsets"]
        IN /\ NamesOf(cleaned) \subseteq NamesOf(SourceRRsets)
           /\ TypesAt(cleaned, apex)
                = TypesAt(SourceRRsets, apex) \ {"CNAME"}
           /\ \A name \in NamesOf(SourceRRsets) \ {apex} :
                 TypesAt(cleaned, name)
                   = IF "CNAME" \in TypesAt(SourceRRsets, name)
                     THEN {"CNAME"}
                     ELSE TypesAt(SourceRRsets, name)
           /\ \A name \in NamesOf(SourceRRsets) :
                 TypesAt(cleaned, name) # TypesAt(SourceRRsets, name) =>
                     \E i \in DOMAIN warnings :
                         /\ warnings[i].name = name
                         /\ warnings[i].kind \in {"apex", "cname"}

\* a source with a CNAME and an SOA at the apex and a CNAME next to another
\* type at www
C26_Witness ==
    /\ pc = "sanitize_done" /\ auto_fix_cname_conflicts
    /\ {"CNAME", "SOA"} \subseteq TypesAt(SourceRRsets, Apex)
    /\ "CNAME" \in TypesAt(SourceRRsets, Www)
    /\ TypesAt(SourceRRsets, Www) # {"CNAME"}
    /\ Len(warnings) >= 2

\* C27: under auto_fix_double_cname_conflicts, whatever the value of
\* auto_fix_cname_conflicts, every CNAME rrset of the sanitized zone has at
\* most one record.
C27_SingleCname ==
    (pc = "sanitize_done" /\ auto_fix_double_cname_conflicts) =>
        \A rr \in Range(sanitized["rrsets"]) :
            rr.type = "CNAME" => Len(rr.records) <= 1

Whitelist == {"name", "kind", "masters", "nameservers", "account",
              "soa_edit", "soa_edit_api", "rrsets"}

\* C28: the keys of the sanitized zone are whitelisted keys, the whitelisted
\* keys of the input but name and rrsets keep their values, and kind is
\* the input's kind if it has one and "Native" otherwise.
C28_Whitelist ==
    pc = "sanitize_done" =>
        /\ DOMAIN sanitized \subseteq Whitelist
        /\ \A key \in (DOMAIN source_doc \cap Whitelist) \ {"name", "rrsets"} :
              key \in DOMAIN sanitized /\ sanitized[key] = source_doc[key]
        /\ "kind" \in DOMAIN sanitized
        /\ "kind" \notin DOMAIN source_doc => sanitized["kind"] = "Native"

\* a zone without kind and with a key that is not whitelisted
C28_Witness ==
    /\ pc = "sanitize_done"
    /\ "kind" \notin DOMAIN source_doc
    /\ DOMAIN source_doc \ Whitelist # {}
    /\ DOMAIN source_doc \cap {"masters"} # {}
    /\ sanitized["kind"] = "Native"

----------------------------------------------------------------------------
(* AsyncZoneMigrator.migrate over the two clients *)

zone_name == source_doc["name"]

ZonePath(name) == <<"/zones/">> \o normalize_zone_name(name)

Request(client, method, path, body) ==
    [client |-> client, method |-> method, path |-> path, body |-> body,
     outcome |-> "pending"]

\* the statuses a server answers with
ServerStatuses == {200, 400, 404, 408, 429, 500, 501, 502, 503, 504}

JsonCalls == {"get_zone", "zone_exists", "create_zone", "recreate_create_zone"}
OkCalls == {"delete_zone", "patch_zone_rrsets"}
Calls == JsonCalls \cup OkCalls

Returned(call) ==
    CASE call = "get_zone" -> "get_zone_returned"
      [] call = "zone_exists" -> "zone_exists_returned"
      [] call = "create_zone" -> "create_zone_returned"
      [] call = "recreate_create_zone" -> "recreate_create_zone_returned"
      [] call = "delete_zone" -> "delete_zone_returned"
      [] call = "patch_zone_rrsets" -> "patch_zone_rrsets_returned"

\* the target answers the existence check with 200 and the document when
\* it has the zone and with 404 when it has not
Answers(call) ==
    IF call = "zone_exists"
    THEN (IF target_doc = <<>> THEN ServerStatuses \ {200}
          ELSE ServerStatuses \ {404})
    ELSE ServerStatuses

Decision(call, kind, status) ==
    IF call \in JsonCalls THEN _request_json(attempt, retries, kind, status)
    ELSE _request_ok(attempt, retries, kind, status)

Transport == [kind |-> "transport", status |-> 0]
Response(status) == [kind |-> "response", status |-> status]

\* a response whose body was read: body = await resp.text()
Bodies == {"", "Not Found"}

ResponseRead(status, text) ==
    [kind |-> "response", status |-> status, body |-> text]

\* PowerDNSAPIError(method=method, url=url, status=resp.status, body=body);
\* the url is the method's path, kept in the request
PowerDNSAPIError(method, status, text) ==
    [type |-> "PowerDNSAPIError", method |-> method, status |-> status,
     body |-> text]

\* every PowerDNSAPIError of get_zone taken for an absent zone
zone_exists_absent_on_error(status, document) ==
    IF status >= 400 THEN [raised |-> FALSE, value |-> <<>>]
    ELSE [raised |-> FALSE, value |-> document]

\* zone_exists over the status get_zone ended with and the document it
\* read: except PowerDNSAPIError as exc: if exc.status == 404: return None;
\* raise
zone_exists(status, document) ==
    IF status = 404 THEN [raised |-> FALSE, value |-> <<>>]
    ELSE IF status >= 400 THEN [raised |-> TRUE, value |-> <<>>]
    ELSE [raised |-> FALSE, value |-> document]

EndCall(outcome) ==
    requests' = [requests EXCEPT ![Len(requests)].outcome = outcome]

BeginCall(call, request) ==
    /\ pc' = call
    /\ requests' = Append(requests, request)
    /\ attempt' = 0 /\ attempts' = 0 /\ sleeps' = 0
    /\ last_error' = <<>> /\ last_outcome' = <<>> /\ outcomes' = <<>>

Return(value) ==
    /\ pc' = "done"
    /\ result' = Some(value)
    /\ UNCHANGED <<requests, attempt, attempts, sleeps, last_error, last_outcome,
                   outcomes>>

Config == <<ignore_soa_serial, retries, source_doc, target_doc, recreate,
            dry_run, prev, Delays, Batch>>
Locals == <<sanitized, target_zone, changes, result, error>>

Init ==
    /\ ignore_soa_serial \in BOOLEAN
    /\ retries \in {ClientRetries(arg) : arg \in -1..MaxRetries}
    /\ source_doc \in PlainSourceDocs(SourceCorePool)
    /\ target_doc \in TargetDocs(TargetCorePool) \cup {<<>>}
    /\ recreate \in BOOLEAN
    /\ dry_run \in BOOLEAN
    /\ pc = "idle"
    /\ sanitized = <<>> /\ target_zone = <<>> /\ changes = <<>>
    /\ result = <<>> /\ error = <<>> /\ requests = <<>> /\ prev = <<>>
    /\ NoCall /\ NoDelays /\ NoBatch

\* source_zone = await self.source_client.get_zone(zone)   (call issued)
MigrateStart ==
    /\ pc = "idle"
    /\ BeginCall("get_zone", Request("source", "GET", ZonePath(zone_name), <<>>))
    /\ UNCHANGED <<Config, Locals>>

\* the retry taken without the sleep: `continue` ahead of asyncio.sleep
RetryAfterStatus_no_sleep ==
    /\ pc \in Calls
    /\ \E status \in Answers(pc) :
          /\ Decision(pc, "response", status) = "retry"
          /\ last_outcome' = Some(Response(status))
    /\ outcomes' = Append(outcomes, "response")
    /\ attempts' = attempts + 1
    /\ attempt' = attempt + 1
    /\ UNCHANGED <<Config, Locals, pc, requests, last_error, sleeps>>

\* an HTTP attempt answered with a retryable status while attempt < retries
RetryAfterStatus ==
    /\ pc \in Calls
    /\ \E status \in Answers(pc) :
          /\ Decision(pc, "response", status) = "retry"
          /\ last_outcome' = Some(Response(status))
    /\ outcomes' = Append(outcomes, "response")
    /\ attempts' = attempts + 1
    /\ sleeps' = sleeps + 1
    /\ attempt' = attempt + 1
    /\ UNCHANGED <<Config, Locals, pc, requests, last_error>>

\* an HTTP attempt that failed in the transport while attempt < retries
RetryAfterTransportError ==
    /\ pc \in Calls
    /\ Decision(pc, "transport", 0) = "retry"
    /\ last_outcome' = Some(Transport)
    /\ outcomes' = Append(outcomes, "transport")
    /\ last_error' = Some("ClientError")
    /\ attempts' = attempts + 1
    /\ sleeps' = sleeps + 1
    /\ attempt' = attempt + 1
    /\ UNCHANGED <<Config, Locals, pc, requests>>

\* get_zone turning a 404 into None as zone_exists does
RaiseAPIError_get_zone_absent ==
    /\ pc \in Calls
    /\ \E status \in Answers(pc) :
        \E text \in Bodies :
          /\ Decision(pc, "response", status) = "raise_api"
          /\ last_outcome' = Some(ResponseRead(status, text))
          /\ IF pc \in {"zone_exists", "get_zone"}
                /\ ~zone_exists(status, target_doc).raised
             THEN /\ pc' = Returned(pc)
                  /\ error' = error
             ELSE /\ pc' = "raised"
                  /\ error' = Some(PowerDNSAPIError(
                                     requests[Len(requests)].method,
                                     status, text))
    /\ outcomes' = Append(outcomes, "response")
    /\ attempts' = attempts + 1
    /\ EndCall("api_error")
    /\ UNCHANGED <<Config, sanitized, target_zone, changes, result, attempt,
                   sleeps, last_error>>

\* an HTTP attempt answered with a status >= 400 that is not retried:
\* PowerDNSAPIError leaves the client; zone_exists turns a 404 into None
RaiseAPIError ==
    /\ pc \in Calls
    /\ \E status \in Answers(pc) :
        \E text \in Bodies :
          /\ Decision(pc, "response", status) = "raise_api"
          /\ last_outcome' = Some(ResponseRead(status, text))
          /\ IF pc = "zone_exists" /\ ~zone_exists(status, target_doc).raised
             THEN /\ pc' = Returned(pc)
                  /\ error' = error
             ELSE /\ pc' = "raised"
                  /\ error' = Some(PowerDNSAPIError(
                                     requests[Len(requests)].method,
                                     status, text))
    /\ outcomes' = Append(outcomes, "response")
    /\ attempts' = attempts + 1
    /\ EndCall("api_error")
    /\ UNCHANGED <<Config, sanitized, target_zone, changes, result, attempt,
                   sleeps, last_error>>

\* the last permitted HTTP attempt failed in the transport
RaiseConnectionError ==
    /\ pc \in Calls
    /\ \E kind \in {"transport"} \cup {"response"} :
        \E status \in Answers(pc) :
          /\ Decision(pc, kind, status) \in {"raise_conn", "exhausted"}
          /\ last_outcome' = Some(IF kind = "transport" THEN Transport
                                  ELSE Response(status))
          /\ last_error' = IF kind = "transport" THEN Some("ClientError")
                           ELSE last_error
          /\ sleeps' = IF Decision(pc, kind, status) = "exhausted"
                       THEN sleeps + 1 ELSE sleeps
          /\ outcomes' = Append(outcomes, kind)
    /\ attempts' = attempts + 1
    /\ pc' = "raised"
    /\ error' = Some([type |-> "PowerDNSConnectionError",
                       method |-> requests[Len(requests)].method,
                       retries_attempted |-> retries])
    /\ EndCall("connection_error")
    /\ UNCHANGED <<Config, sanitized, target_zone, changes, result, attempt>>

\* an HTTP attempt answered with a status below 400: the call returns
CallReturns ==
    /\ pc \in Calls
    /\ \E status \in Answers(pc) :
          /\ Decision(pc, "response", status) = "return"
          /\ last_outcome' = Some(Response(status))
    /\ outcomes' = Append(outcomes, "response")
    /\ attempts' = attempts + 1
    /\ pc' = Returned(pc)
    /\ EndCall("ok")
    /\ UNCHANGED <<Config, Locals, attempt, sleeps, last_error>>

\* the existence check issued without waiting for the source GET
AfterGetZone_not_awaited ==
    /\ pc = "get_zone"
    /\ sanitized' = _sanitize_zone(source_doc)
    /\ BeginCall("zone_exists", Request("target", "GET", ZonePath(zone_name), <<>>))
    /\ UNCHANGED <<Config, target_zone, changes, result, error>>

\* sanitized = self._sanitize_zone(source_zone)
\* target_zone = await self.target_client.zone_exists(zone)   (call issued)
AfterGetZone ==
    /\ pc = Returned("get_zone")
    /\ sanitized' = _sanitize_zone(source_doc)
    /\ BeginCall("zone_exists", Request("target", "GET", ZonePath(zone_name), <<>>))
    /\ UNCHANGED <<Config, target_zone, changes, result, error>>

MigrationResult(source_zone, tzone, chs, action) ==
    [source_zone |-> source_zone, target_zone |-> tzone, changes |-> chs,
     migrator_action |-> action]

\* The branch migrate takes once zone_exists has returned: the client call it
\* issues next, or the action it returns with when it issues none.
\* recreate tested before the change set: an in-sync zone is recreated
migrate_branch_recreate_first(tzone, chs, rec, dry) ==
    IF tzone # <<>>
    THEN IF rec THEN (IF ~dry THEN "delete_zone" ELSE "RECREATE_ZONE")
         ELSE IF chs # <<>>
              THEN (IF ~dry THEN "patch_zone_rrsets" ELSE "PATCH_ZONE")
              ELSE "NOOP"
    ELSE IF ~dry THEN "create_zone" ELSE "CREATE_ZONE"

\* recreate without the delete
migrate_branch_no_delete(tzone, chs, rec, dry) ==
    IF tzone # <<>>
    THEN IF chs # <<>>
         THEN IF rec THEN (IF ~dry THEN "recreate_create_zone" ELSE "RECREATE_ZONE")
              ELSE (IF ~dry THEN "patch_zone_rrsets" ELSE "PATCH_ZONE")
         ELSE "NOOP"
    ELSE IF ~dry THEN "create_zone" ELSE "CREATE_ZONE"

\* the patch issued without `if not dry_run`
migrate_branch_dry_patch(tzone, chs, rec, dry) ==
    IF tzone # <<>>
    THEN IF chs # <<>>
         THEN IF rec THEN (IF ~dry THEN "delete_zone" ELSE "RECREATE_ZONE")
              ELSE "patch_zone_rrsets"
         ELSE "NOOP"
    ELSE IF ~dry THEN "create_zone" ELSE "CREATE_ZONE"

\* an absent zone created through the recreate path
migrate_branch_absent_recreate(tzone, chs, rec, dry) ==
    IF tzone # <<>>
    THEN IF chs # <<>>
         THEN IF rec THEN (IF ~dry THEN "delete_zone" ELSE "RECREATE_ZONE")
              ELSE (IF ~dry THEN "patch_zone_rrsets" ELSE "PATCH_ZONE")
         ELSE "NOOP"
    ELSE IF ~dry THEN "recreate_create_zone" ELSE "CREATE_ZONE"

migrate_branch(tzone, chs, rec, dry) ==
    IF tzone # <<>>
    THEN IF chs # <<>>
         THEN IF rec THEN (IF ~dry THEN "delete_zone" ELSE "RECREATE_ZONE")
              ELSE (IF ~dry THEN "patch_zone_rrsets" ELSE "PATCH_ZONE")
         ELSE "NOOP"
    ELSE IF ~dry THEN "create_zone" ELSE "CREATE_ZONE"

\* only the first operation of the change set sent
patch_zone_rrsets_first_only(zone, rrsets) ==
    Request("target", "PATCH", ZonePath(zone), [rrsets |-> SubSeq(rrsets, 1, 1)])

\* await self.target_client.patch_zone_rrsets(zone, changes)
patch_zone_rrsets(zone, rrsets) ==
    Request("target", "PATCH", ZonePath(zone), [rrsets |-> rrsets])

\* await self.target_client.delete_zone(zone)
delete_zone(zone) == Request("target", "DELETE", ZonePath(zone), <<>>)

\* await self.target_client.create_zone(sanitized)
create_zone(zone_payload) == Request("target", "POST", <<"/zones">>, zone_payload)

\* if target_zone: ... else: ...   (up to the next await or the return)
AfterZoneExists ==
    /\ pc = Returned("zone_exists")
    /\ target_zone' = zone_exists(last_outcome[1].status, target_doc).value
    /\ changes' = IF target_zone' # <<>>
                  THEN _build_changes(ignore_soa_serial, sanitized, target_zone')
                  ELSE changes
    /\ LET branch == migrate_branch(target_zone', changes', recreate, dry_run) IN
       CASE branch = "delete_zone" ->
              BeginCall(branch, delete_zone(zone_name)) /\ UNCHANGED result
         [] branch = "patch_zone_rrsets" ->
              BeginCall(branch, patch_zone_rrsets(zone_name, changes'))
              /\ UNCHANGED result
         [] branch \in {"create_zone", "recreate_create_zone"} ->
              BeginCall(branch, create_zone(sanitized)) /\ UNCHANGED result
         [] branch = "NOOP" ->
              Return(MigrationResult(sanitized,
                                     IF ~dry_run THEN target_zone' ELSE <<>>,
                                     <<>>, "NOOP"))
         [] branch \in {"RECREATE_ZONE", "PATCH_ZONE"} ->
              Return(MigrationResult(sanitized, <<>>, changes', branch))
         [] branch = "CREATE_ZONE" ->
              Return(MigrationResult(sanitized, <<>>, <<>>, branch))
    /\ UNCHANGED <<Config, sanitized, error>>

\* created = await self.target_client.create_zone(sanitized)   (call issued)
AfterDeleteZone ==
    /\ pc = Returned("delete_zone")
    /\ BeginCall("recreate_create_zone", create_zone(sanitized))
    /\ UNCHANGED <<Config, Locals>>

\* return {... "migrator_action": "RECREATE_ZONE"}
AfterRecreate ==
    /\ pc = Returned("recreate_create_zone")
    /\ Return(MigrationResult(sanitized, requests[Len(requests)].body, changes,
                              "RECREATE_ZONE"))
    /\ UNCHANGED <<Config, sanitized, target_zone, changes, error>>

\* return {... "migrator_action": "PATCH_ZONE"}
AfterPatch ==
    /\ pc = Returned("patch_zone_rrsets")
    /\ Return(MigrationResult(sanitized, <<>>, changes, "PATCH_ZONE"))
    /\ UNCHANGED <<Config, sanitized, target_zone, changes, error>>

\* return {... "migrator_action": "CREATE_ZONE"}
AfterCreate ==
    /\ pc = Returned("create_zone")
    /\ Return(MigrationResult(sanitized, requests[Len(requests)].body, <<>>,
                              "CREATE_ZONE"))
    /\ UNCHANGED <<Config, sanitized, target_zone, changes, error>>

\* the caller repeats a completed dry run without dry_run, the servers
\* serving the documents they served before
Rerun ==
    /\ pc = "done" /\ dry_run /\ prev = <<>>
    /\ prev' = result
    /\ dry_run' = FALSE
    /\ pc' = "idle"
    /\ sanitized' = <<>> /\ target_zone' = <<>> /\ changes' = <<>>
    /\ result' = <<>> /\ error' = <<>> /\ requests' = <<>>
    /\ attempt' = 0 /\ attempts' = 0 /\ sleeps' = 0
    /\ last_error' = <<>> /\ last_outcome' = <<>> /\ outcomes' = <<>>
    /\ UNCHANGED <<ignore_soa_serial, retries, source_doc, target_doc, recreate,
                   Delays, Batch>>

Next ==
    \/ MigrateStart
    \/ RetryAfterStatus
    \/ RetryAfterTransportError
    \/ RaiseAPIError
    \/ RaiseConnectionError
    \/ CallReturns
    \/ AfterGetZone
    \/ AfterZoneExists
    \/ AfterDeleteZone
    \/ AfterRecreate
    \/ AfterPatch
    \/ AfterCreate
    \/ Rerun

Spec == Init /\ [][Next]_vars

----------------------------------------------------------------------------
(* Properties of migrate *)

IsWrite(request) ==
    request.client = "target" /\ request.method \in {"POST", "PATCH", "DELETE"}

\* the write calls issued to the target so far, in order
Writes == SelectSeq(requests, IsWrite)

WriteMethods == MapSeq(Writes, LAMBDA request : request.method)

\* zone_exists has returned and migrate has taken its branch
Dispatched ==
    pc \in {"create_zone", "recreate_create_zone", "delete_zone",
            "patch_zone_rrsets", "create_zone_returned",
            "recreate_create_zone_returned", "delete_zone_returned",
            "patch_zone_rrsets_returned", "done"}
    \/ (pc = "raised" /\ Len(requests) > 2)

\* C1: the target has not got the zone and dry_run is false: one POST /zones
\* with the sanitized source zone, no DELETE and no PATCH, and the call
\* returns CREATE_ZONE.
C1_CreateOnAbsent ==
    (Dispatched /\ target_zone = <<>> /\ ~dry_run) =>
        /\ Len(Writes) = 1
        /\ Writes[1].method = "POST"
        /\ Writes[1].path = <<"/zones">>
        /\ Writes[1].body = _sanitize_zone(source_doc)
        /\ pc = "done" => /\ result[1].migrator_action = "CREATE_ZONE"
                          /\ Writes[1].outcome = "ok"

C1_Witness ==
    /\ pc = "done" /\ target_zone = <<>> /\ ~dry_run
    /\ result[1].migrator_action = "CREATE_ZONE"
    /\ Len(Writes) = 1
    /\ Len(ZoneRRsets(Writes[1].body)) = 2

C3_PatchWhole ==
    (Dispatched /\ target_zone # <<>> /\ changes # <<>>
                /\ ~recreate /\ ~dry_run) =>
        /\ Len(Writes) = 1
        /\ Writes[1].method = "PATCH"
        /\ Writes[1].path = <<"/zones/">> \o <<"ex", ".">>
        /\ Writes[1].body.rrsets = changes
        /\ pc = "done" => /\ result[1].migrator_action = "PATCH_ZONE"
                          /\ result[1].changes = changes
                          /\ Writes[1].outcome = "ok"

C3_Witness ==
    /\ pc = "done" /\ ~recreate /\ ~dry_run
    /\ result[1].migrator_action = "PATCH_ZONE"
    /\ Len(changes) >= 2
    /\ WriteMethods = <<"PATCH">>

\* C4: the target has the zone, the diff is not empty, recreate is true and
\* dry_run false: DELETE, then POST of the sanitized zone once the DELETE
\* has completed, no PATCH, and the call returns RECREATE_ZONE.
C4_RecreateOrder ==
    (Dispatched /\ target_zone # <<>> /\ changes # <<>>
                /\ recreate /\ ~dry_run) =>
        /\ WriteMethods \in {<<"DELETE">>, <<"DELETE", "POST">>}
        /\ Len(Writes) = 2 =>
              /\ Writes[1].outcome = "ok"
              /\ Writes[2].path = <<"/zones">>
              /\ Writes[2].body = _sanitize_zone(source_doc)
        /\ pc = "done" => /\ WriteMethods = <<"DELETE", "POST">>
                          /\ Writes[2].outcome = "ok"
                          /\ result[1].migrator_action = "RECREATE_ZONE"

C4_Witness ==
    /\ pc = "done" /\ recreate /\ ~dry_run
    /\ result[1].migrator_action = "RECREATE_ZONE"
    /\ WriteMethods = <<"DELETE", "POST">>

\* C5: a dry run issues no write in any branch, and it returns the action,
\* the sanitized source zone and the change set that the same call without
\* dry_run returns on the same documents.
C5_DryRun ==
    /\ dry_run => Writes = <<>>
    /\ (pc = "done" /\ prev # <<>>) =>
          /\ result[1].migrator_action = prev[1].migrator_action
          /\ result[1].source_zone = prev[1].source_zone
          /\ result[1].changes = prev[1].changes

\* a run that wrote to the target, after a dry run on the same documents
C5_Witness ==
    /\ pc = "done" /\ prev # <<>> /\ ~dry_run
    /\ Len(Writes) = 2
    /\ prev[1].migrator_action = "RECREATE_ZONE"

----------------------------------------------------------------------------
(* Properties of the retry loop *)

RetryableStatuses == {408, 429, 500, 502, 503, 504}

\* C9: a logical client call makes at most retries + 1 HTTP attempts,
\* transport failures and retryable statuses counted together.
C9_RetryBounded == attempts <= retries + 1

\* a call that used up its attempts on a transport failure followed by
\* retryable statuses
C9_Witness ==
    /\ pc = "raised" /\ retries >= 2
    /\ attempts = retries + 1
    /\ last_error # <<>>
    /\ last_outcome[1].kind = "response"
    /\ requests[Len(requests)].method = "PATCH"

\* this step made an HTTP attempt
Attempted == attempts' = attempts + 1

\* C10: a further attempt follows only a transport failure or a status in
\* {408, 429, 500, 502, 503, 504}; any other status >= 400 ends the call on
\* the attempt that received it with an API error.
C10_RetryOnlyRetryable ==
    [][Attempted =>
         /\ attempts >= 1 =>
               \/ last_outcome[1].kind = "transport"
               \/ last_outcome[1].status \in RetryableStatuses
         /\ (/\ last_outcome'[1].kind = "response"
             /\ last_outcome'[1].status >= 400
             /\ last_outcome'[1].status \notin RetryableStatuses) =>
               /\ requests'[Len(requests')].outcome = "api_error"
               /\ \/ /\ pc' = "raised"
                     /\ error'[1].type = "PowerDNSAPIError"
                     /\ error'[1].status = last_outcome'[1].status
                  \/ /\ pc = "zone_exists" /\ pc' = "zone_exists_returned"
                     /\ last_outcome'[1].status = 404]_vars

\* a call that was retried and then ended by a status that is not retried
C10_Witness ==
    /\ pc = "raised" /\ attempts >= 2
    /\ attempts <= retries
    /\ error[1].type = "PowerDNSAPIError"
    /\ error[1].status = 501

----------------------------------------------------------------------------
(* The delays of one client call whose attempts keep failing *)

\* str(n) for a natural number n
RECURSIVE DecimalString(_)
DecimalString(n) ==
    IF n < 10 THEN <<DigitChars[n + 1]>>
    ELSE DecimalString(n \div 10) \o <<DigitChars[(n % 10) + 1]>>

\* Retry-After headers a server sends: none, an empty one, a negative
\* number, a fraction, an HTTP date, and whole numbers of seconds
RetryAfterPool ==
    {<<>>, <<<<>>>>, <<<<"-", "1">>>>, <<<<"1", ".", "5">>>>,
     <<<<"W", "e", "d", ",">>>>, <<DecimalString(10)>>}
    \cup {<<DecimalString(n)>> : n \in 0..MaxRetryAfter}

\* the values random.uniform(0, jitter) can return, on the tick grid
Uniform(jitter) == 0..jitter

\* everything but the retry loop's position and the delays
Migration == <<ignore_soa_serial, source_doc, target_doc, recreate, dry_run,
               pc, sanitized, target_zone, changes, result, error, requests,
               attempts, prev>>

InitDelay ==
    /\ retries \in {ClientRetries(arg) : arg \in -1..MaxRetries}
    /\ retry_backoff \in {ClientSeconds(arg) : arg \in -1..MaxRetryBackoff}
    /\ retry_max_backoff
          \in {ClientSeconds(arg) : arg \in -1..MaxRetryMaxBackoff}
    /\ retry_jitter \in {ClientSeconds(arg) : arg \in -1..MaxRetryJitter}
    /\ resp = <<>> /\ delay_call = <<>>
    /\ ignore_soa_serial = FALSE /\ recreate = FALSE /\ dry_run = FALSE
    /\ source_doc = <<>> /\ target_doc = <<>>
    /\ pc = "retrying"
    /\ sanitized = <<>> /\ target_zone = <<>> /\ changes = <<>>
    /\ result = <<>> /\ error = <<>> /\ requests = <<>> /\ prev = <<>>
    /\ NoCall /\ NoBatch

\* the _retry_delay call of a retry site: where it is, what it was given,
\* the delay before the header is looked at, and what it returned
DelayCall(site, uniform, response) ==
    [site |-> site, attempt |-> attempt, uniform |-> uniform,
     resp |-> response,
     computed |-> _retry_delay_backoff(retry_backoff, retry_max_backoff,
                                       retry_jitter, attempt, uniform),
     delay |-> _retry_delay(retry_backoff, retry_max_backoff, retry_jitter,
                            attempt, uniform, response)]

\* delay = self._retry_delay(attempt, resp) after a retryable status
DelayAfterStatus ==
    /\ pc = "retrying" /\ attempt < retries
    /\ \E header \in RetryAfterPool :
          /\ resp' = Some(header)
          /\ \E uniform \in Uniform(retry_jitter) :
                delay_call' = Some(DelayCall("status", uniform, resp'))
    /\ attempt' = attempt + 1
    /\ sleeps' = sleeps + 1
    /\ last_outcome' = Some(Response(503))
    /\ outcomes' = Append(outcomes, "response")
    /\ UNCHANGED <<Migration, Batch, retries, retry_backoff, retry_max_backoff,
                   retry_jitter, last_error>>

\* delay = self._retry_delay(attempt) after a transport failure; resp stays
\* bound to the response of an earlier pass
DelayAfterTransportError ==
    /\ pc = "retrying" /\ attempt < retries
    /\ \E uniform \in Uniform(retry_jitter) :
          delay_call' = Some(DelayCall("transport", uniform, <<>>))
    /\ attempt' = attempt + 1
    /\ sleeps' = sleeps + 1
    /\ last_error' = Some("ClientError")
    /\ last_outcome' = Some(Transport)
    /\ outcomes' = Append(outcomes, "transport")
    /\ UNCHANGED <<Migration, Batch, retries, retry_backoff, retry_max_backoff,
                   retry_jitter, resp>>

NextDelay == DelayAfterStatus \/ DelayAfterTransportError

SpecDelay == InitDelay /\ [][NextDelay]_vars

----------------------------------------------------------------------------
(* Properties of the retry delay *)

\* C14: the delay computed at attempt index a, before the Retry-After
\* header is looked at, is min(retry_max_backoff, retry_backoff * 2^a) plus
\* a jitter term between 0 and retry_jitter, hence at most
\* retry_max_backoff + retry_jitter.
C14_DelayBound ==
    delay_call # <<>> =>
        LET call == delay_call[1]
            base == call.computed - call.uniform
            grown == retry_backoff * (2 ^ call.attempt)
        IN /\ call.uniform >= 0 /\ call.uniform <= retry_jitter
           /\ base <= retry_max_backoff /\ base <= grown
           /\ base = retry_max_backoff \/ base = grown
           /\ call.computed <= retry_max_backoff + retry_jitter
           /\ call.computed >= 0

\* a delay cut down to the cap, with a jitter strictly inside its range
C14_Witness ==
    /\ delay_call # <<>>
    /\ delay_call[1].attempt >= 1
    /\ retry_backoff * (2 ^ delay_call[1].attempt) > retry_max_backoff
    /\ retry_max_backoff > 0
    /\ delay_call[1].uniform > 0 /\ delay_call[1].uniform < retry_jitter
    /\ delay_call[1].computed = retry_max_backoff + delay_call[1].uniform

\* the whole number of seconds a Retry-After header stands for, in ticks
RetryAfterTicks(header) ==
    IF \E n \in 0..(MaxRetryAfter + 10) : header = <<DecimalString(n)>>
    THEN Some(TicksPerSecond
              * (CHOOSE n \in 0..(MaxRetryAfter + 10) :
                      header = <<DecimalString(n)>>))
    ELSE <<>>

\* C15: after a retried response with a numeric Retry-After header above
\* the computed delay the delay used is the header's value; in every other
\* case it is the computed delay, and after a transport failure it is the
\* computed delay whatever header an earlier response of the call carried.
C15_RetryAfter ==
    delay_call # <<>> =>
        LET call == delay_call[1]
            header == IF resp = <<>> THEN <<>> ELSE RetryAfterTicks(resp[1])
        IN IF /\ call.site = "status" /\ header # <<>>
              /\ header[1] > call.computed
           THEN call.delay = header[1]
           ELSE call.delay = call.computed

\* the header of a retried response won over a non-zero computed delay
C15_Witness ==
    /\ delay_call # <<>>
    /\ delay_call[1].site = "status"
    /\ resp = Some(<<DecimalString(MaxRetryAfter)>>)
    /\ delay_call[1].computed > 0
    /\ delay_call[1].delay = TicksPerSecond * MaxRetryAfter
    /\ delay_call[1].delay > delay_call[1].computed

\* a transport failure after a response whose header exceeded the delay
C15_TransportWitness ==
    /\ delay_call # <<>>
    /\ delay_call[1].site = "transport"
    /\ resp = Some(<<DecimalString(10)>>)
    /\ delay_call[1].delay < TicksPerSecond * 10

----------------------------------------------------------------------------
(* Properties of the client's errors *)

\* the exception that left the call that ended last
Raised(type) == pc = "raised" /\ error # <<>> /\ error[1].type = type

\* C11: when the attempt with index retries (the last permitted one) gets a
\* response with a status >= 400, retryable or not, the request ends in a
\* PowerDNSAPIError with that status and that body, never in a
\* PowerDNSConnectionError, whatever the earlier attempts ended in; and a
\* transport failure on that attempt never ends in a PowerDNSAPIError.
C11_NoWrapping ==
    [][(Attempted /\ attempt = retries) =>
         /\ (/\ last_outcome'[1].kind = "response"
             /\ last_outcome'[1].status >= 400) =>
               /\ requests'[Len(requests')].outcome = "api_error"
               /\ \/ /\ pc' = "raised"
                     /\ error'[1].type = "PowerDNSAPIError"
                     /\ error'[1].status = last_outcome'[1].status
                     /\ error'[1].body = last_outcome'[1].body
                  \/ /\ pc = "zone_exists" /\ pc' = "zone_exists_returned"
                     /\ last_outcome'[1].status = 404
         /\ last_outcome'[1].kind = "transport" =>
               /\ requests'[Len(requests')].outcome = "connection_error"
               /\ pc' = "raised"
               /\ error'[1].type = "PowerDNSConnectionError"]_vars

\* a retryable status on the last permitted attempt, after a transport
\* failure on an earlier one, left the call as an API error with a body
C11_Witness ==
    /\ Raised("PowerDNSAPIError")
    /\ retries >= 1 /\ attempts = retries + 1
    /\ error[1].status \in RetryableStatuses
    /\ error[1].body # ""
    /\ \E i \in 1..Len(outcomes) : outcomes[i] = "transport"

Succeeded ==
    /\ pc \in {Returned(call) : call \in Calls}
    /\ last_outcome # <<>>
    /\ last_outcome[1].kind = "response"
    /\ last_outcome[1].status < 400

\* C13: a call that succeeds on its attempt k + 1, the k attempts before it
\* having ended in a retryable status or a transport failure, has made
\* exactly k + 1 HTTP attempts and exactly k sleeps, with k <= retries, and
\* makes no attempt after the successful one.
C13_SuccessAfterRetries ==
    [][/\ (pc \in Calls /\ pc' = Returned(pc) /\ Succeeded') =>
            /\ Len(outcomes) <= retries
            /\ attempts' = Len(outcomes) + 1
            /\ sleeps' = Len(outcomes)
            /\ requests'[Len(requests')].outcome = "ok"
       /\ Succeeded => ~Attempted]_vars

\* a write that succeeded on its third attempt, after a retried response
\* and a transport failure
C13_Witness ==
    /\ Succeeded
    /\ pc = Returned("patch_zone_rrsets")
    /\ attempts = 3 /\ sleeps = 2
    /\ \E i \in 1..2 : outcomes[i] = "response"
    /\ \E i \in 1..2 : outcomes[i] = "transport"

----------------------------------------------------------------------------
(* cli._run_batch: the producer, the worker tasks and the queue between    *)
(* them.  The tasks run on one event loop: a task runs from one await that *)
(* suspends it to the next, and running names the task that has the loop.  *)
(* queue.put suspends only on a full queue, queue.get only on an empty     *)
(* one, queue.join only while items are unfinished, and awaiting a task    *)
(* only while the task has not ended.                                      *)

\* lines of a zones file: a zone name, a line of blanks, a comment
LinePool == {<<"ex.org", "\n">>, <<" ", "\n">>, <<"#", "ex.org", "\n">>}

ZonesFiles == UNION {[1..n -> LinePool] : n \in 0..MaxLines}

Whitespace == {" ", "\n"}

\* str.strip()
RECURSIVE strip(_)
strip(line) ==
    IF line = <<>> THEN line
    ELSE IF Head(line) \in Whitespace THEN strip(Tail(line))
    ELSE IF line[Len(line)] \in Whitespace
         THEN strip(SubSeq(line, 1, Len(line) - 1))
    ELSE line

\* not zone or zone.startswith("#")
Skipped(name) == IF name = <<>> THEN TRUE ELSE Head(name) = "#"

\* the zone names of a zones file, as the numbers of their lines
ZoneLines(lines) == {i \in DOMAIN lines : ~Skipped(strip(lines[i]))}

\* the sentinel queue.put(None); a zone is on the queue as its line number
None == 0

\* asyncio.Queue() without maxsize: a queue that is never full
maxsize_unbounded == MaxLines + MaxConcurrency + 2

\* asyncio.Queue(maxsize=max(1, args.concurrency * 2))
maxsize == IF concurrency * 2 > 1 THEN concurrency * 2 ELSE 1

\* range(max(1, args.concurrency))
WorkerCount == IF concurrency > 1 THEN concurrency ELSE 1

\* a worker task: where it is suspended, the zone it migrates, whether
\* task.cancel() is pending on it, whether it goes on without suspending,
\* the exception that ended it, and how far the recreate of its migrate has
\* come ("deleted": delete_zone has returned and the POST of create_zone is
\* not sent yet; "create": it is sent)
NewWorker == [pc |-> "get", zone |-> None, cancel |-> FALSE, run |-> FALSE,
              exc |-> "", step |-> ""]

Ended(worker) == worker.pc \in {"returned", "cancelled", "raised"}

\* for task in workers: task.cancel()
CancelAll(tasks) ==
    [w \in DOMAIN tasks |->
        IF Ended(tasks[w]) THEN tasks[w]
        ELSE [tasks[w] EXCEPT !.cancel = TRUE]]

\* what migrator.migrate ends in: a return or one of the exceptions
MigrateOutcomes ==
    {"ok", "PowerDNSAPIError", "PowerDNSConnectionError", "KeyError"}

\* except (PowerDNSAPIError, MigrationError)
Caught == {"PowerDNSAPIError", "MigrationError"}

NoMigration ==
    /\ ignore_soa_serial = FALSE /\ dry_run = FALSE
    /\ retries = 0
    /\ source_doc = <<>> /\ target_doc = <<>>
    /\ pc = "batch"
    /\ sanitized = <<>> /\ target_zone = <<>> /\ changes = <<>>
    /\ result = <<>> /\ error = <<>> /\ requests = <<>> /\ prev = <<>>
    /\ NoCall /\ NoDelays

Migrating == <<ignore_soa_serial, retries, source_doc, target_doc, recreate,
               dry_run, pc, sanitized, target_zone, changes, result, error,
            requests, attempt, attempts, sleeps, last_error, last_outcome,
            outcomes, Delays, prev>>

\* what a step of cli._run_batch leaves alone
Single == <<Migrating, Example>>

InitBatch ==
    /\ concurrency \in 0..MaxConcurrency
    /\ on_error \in {"continue", "stop"}
    /\ graceful_timeout \in 0..MaxGracefulTimeout
    /\ zones_file \in {<<>>} \cup {Some(lines) : lines \in ZonesFiles}
    /\ NoOptions
    /\ BatchNotStarted /\ NoExample
    /\ recreate \in BOOLEAN
    /\ NoMigration

\* _run_batch up to the producer loop: a missing zones file closes the
\* migrator and returns 1; otherwise the worker tasks are created
BatchStart ==
    /\ main = "start" /\ running = "loop"
    /\ IF zones_file = <<>>
       THEN /\ migrator_closed' = TRUE
            /\ exit_code' = Some(1)
            /\ main' = "returned"
            /\ UNCHANGED <<workers, running>>
       ELSE /\ workers' = [w \in 1..WorkerCount |-> NewWorker]
            /\ main' = "read"
            /\ running' = "main"
            /\ UNCHANGED <<migrator_closed, exit_code>>
    /\ UNCHANGED <<Single, BatchArgs, line_no, queue, unfinished, put_zone,
                   sentinels_left, await_idx, success, failed, stop_event,
                   cancelled_workers, interrupt_count, enqueued, migrated>>

\* for line in handle: the file is read to its end, or stop_event is set
ReadEnd ==
    /\ main = "read" /\ running = "main"
    /\ line_no = Len(zones_file[1]) \/ stop_event
    /\ main' = "finally"
    /\ UNCHANGED <<Single, BatchArgs, line_no, queue, unfinished, put_zone,
                   sentinels_left, workers, await_idx, success, failed,
                   stop_event, cancelled_workers, running, interrupt_count,
                   migrator_closed, exit_code, enqueued, migrated>>

\* an empty line or a comment: continue
ReadSkip ==
    /\ main = "read" /\ running = "main"
    /\ line_no < Len(zones_file[1]) /\ ~stop_event
    /\ Skipped(strip(zones_file[1][line_no + 1]))
    /\ line_no' = line_no + 1
    /\ UNCHANGED <<Single, BatchArgs, queue, unfinished, put_zone,
                   sentinels_left, workers, await_idx, success, failed,
                   stop_event, cancelled_workers, main, running,
                   interrupt_count, migrator_closed, exit_code, enqueued,
                   migrated>>

\* await queue.put(zone): done at once, or suspended on a full queue
ReadPut ==
    /\ main = "read" /\ running = "main"
    /\ line_no < Len(zones_file[1]) /\ ~stop_event
    /\ ~Skipped(strip(zones_file[1][line_no + 1]))
    /\ line_no' = line_no + 1
    /\ IF Len(queue) < maxsize
       THEN /\ queue' = Append(queue, line_no')
            /\ unfinished' = unfinished + 1
            /\ enqueued' = Append(enqueued, line_no')
            /\ UNCHANGED <<put_zone, main, running>>
       ELSE /\ put_zone' = Some(line_no')
            /\ main' = "put"
            /\ running' = "loop"
            /\ UNCHANGED <<queue, unfinished, enqueued>>
    /\ UNCHANGED <<Single, BatchArgs, sentinels_left, workers, await_idx,
                   success, failed, stop_event, cancelled_workers,
                   interrupt_count, migrator_closed, exit_code, migrated>>

\* the suspended queue.put(zone) completes once the queue has room
PutResumes ==
    /\ main = "put" /\ running = "loop"
    /\ Len(queue) < maxsize
    /\ queue' = Append(queue, put_zone[1])
    /\ unfinished' = unfinished + 1
    /\ enqueued' = Append(enqueued, put_zone[1])
    /\ put_zone' = <<>>
    /\ main' = "read"
    /\ running' = "main"
    /\ UNCHANGED <<Single, BatchArgs, line_no, sentinels_left, workers,
                   await_idx, success, failed, stop_event, cancelled_workers,
                   interrupt_count, migrator_closed, exit_code, migrated>>

\* one sentinel for all the workers: await queue.put(None) outside the loop
Finally_one_sentinel ==
    /\ main = "finally" /\ running = "main"
    /\ IF stop_event /\ on_error = "stop"
       THEN /\ workers' = CancelAll(workers)
            /\ cancelled_workers' = TRUE
            /\ queue' = <<>>
            /\ unfinished' = unfinished - Len(queue)
       ELSE UNCHANGED <<workers, cancelled_workers, queue, unfinished>>
    /\ sentinels_left' = 1
    /\ main' = "sentinels"
    /\ UNCHANGED <<Single, BatchArgs, line_no, put_zone, await_idx, success,
                   failed, stop_event, interrupt_count, migrator_closed,
                   exit_code, running, enqueued, migrated>>

\* finally: on a stop under on_error == "stop" the workers are cancelled and
\* the queue is drained; then the sentinels are to be put
Finally ==
    /\ main = "finally" /\ running = "main"
    /\ IF stop_event /\ on_error = "stop"
       THEN /\ workers' = CancelAll(workers)
            /\ cancelled_workers' = TRUE
            /\ queue' = <<>>
            /\ unfinished' = unfinished - Len(queue)
       ELSE UNCHANGED <<workers, cancelled_workers, queue, unfinished>>
    /\ sentinels_left' = Len(workers)
    /\ main' = "sentinels"
    /\ UNCHANGED <<Single, BatchArgs, line_no, put_zone, await_idx, success,
                   failed, stop_event, interrupt_count, migrator_closed,
                   exit_code, running, enqueued, migrated>>

\* for _ in workers: await queue.put(None)
PutSentinel ==
    /\ main = "sentinels" /\ running \in {"loop", "main"}
    /\ sentinels_left > 0
    /\ Len(queue) < maxsize
    /\ queue' = Append(queue, None)
    /\ unfinished' = unfinished + 1
    /\ sentinels_left' = sentinels_left - 1
    /\ running' = "main"
    /\ UNCHANGED <<Single, BatchArgs, line_no, put_zone, workers, await_idx,
                   success, failed, stop_event, cancelled_workers, main,
                   interrupt_count, migrator_closed, exit_code, enqueued,
                   migrated>>

\* the wait that follows the sentinels: none after a cancellation,
\* wait_for(queue.join(), timeout) after a stop with a graceful timeout,
\* queue.join() otherwise
SentinelsPut ==
    /\ main = "sentinels" /\ running = "main"
    /\ sentinels_left = 0
    /\ main' = IF cancelled_workers THEN "await_workers"
               ELSE IF stop_event /\ graceful_timeout > 0 THEN "join_timeout"
               ELSE "join"
    /\ await_idx' = 1
    /\ UNCHANGED <<Single, BatchArgs, line_no, queue, unfinished, put_zone,
                   sentinels_left, workers, success, failed, stop_event,
                   cancelled_workers, running, interrupt_count,
                   migrator_closed, exit_code, enqueued, migrated>>

\* the await at which the task of _run_batch stands cannot complete yet
MainBlocked ==
    \/ main = "put" /\ Len(queue) >= maxsize
    \/ main = "sentinels" /\ sentinels_left > 0 /\ Len(queue) >= maxsize
    \/ main \in {"join", "join_timeout"} /\ unfinished > 0
    \/ /\ main = "await_workers" /\ await_idx <= Len(workers)
       /\ ~Ended(workers[await_idx])

\* a task can go on without any input or timer, or the task of _run_batch
\* has ended and asyncio.run goes on: the loop runs such tasks before it
\* looks for completed input and expired timers
Ready ==
    \/ /\ main \in {"put", "sentinels", "join", "join_timeout",
                     "await_workers"}
       /\ ~MainBlocked
    \/ main \in {"raised", "cancelled"} /\ exit_code = <<>>
    \/ \E w \in DOMAIN workers :
          /\ ~Ended(workers[w])
          /\ workers[w].cancel \/ (workers[w].pc = "get" /\ queue # <<>>)

\* the loop is idle: it takes the next completed input or expired timer
Idle == running = "loop" /\ ~Ready

\* the task of _run_batch is suspended and the loop runs other tasks
MainSuspends ==
    /\ running = "main" /\ MainBlocked
    /\ running' = "loop"
    /\ UNCHANGED <<Single, BatchArgs, line_no, queue, unfinished, put_zone,
                   sentinels_left, workers, await_idx, success, failed,
                   stop_event, cancelled_workers, main, interrupt_count,
                   migrator_closed, exit_code, enqueued, migrated>>

\* queue.join() returns: every item put was followed by a task_done
JoinReturns ==
    /\ main \in {"join", "join_timeout"} /\ running \in {"loop", "main"}
    /\ unfinished = 0
    /\ main' = "await_workers"
    /\ running' = "main"
    /\ UNCHANGED <<Single, BatchArgs, line_no, queue, unfinished, put_zone,
                   sentinels_left, workers, await_idx, success, failed,
                   stop_event, cancelled_workers, interrupt_count,
                   migrator_closed, exit_code, enqueued, migrated>>

\* except asyncio.TimeoutError: the graceful timeout ran out before the
\* join returned; the workers are cancelled
GracefulTimeout ==
    /\ main = "join_timeout" /\ Idle
    /\ unfinished > 0
    /\ workers' = CancelAll(workers)
    /\ main' = "await_workers"
    /\ running' = "main"
    /\ UNCHANGED <<Single, BatchArgs, line_no, queue, unfinished, put_zone,
                   sentinels_left, await_idx, success, failed, stop_event,
                   cancelled_workers, interrupt_count, migrator_closed,
                   exit_code, enqueued, migrated>>

\* for task in workers: await task, a CancelledError of the task swallowed;
\* any other exception of the task leaves _run_batch here
AwaitWorker ==
    /\ main = "await_workers" /\ running \in {"loop", "main"}
    /\ await_idx <= Len(workers)
    /\ Ended(workers[await_idx])
    /\ IF workers[await_idx].pc = "raised"
       THEN /\ main' = "raised"
            /\ running' = "loop"
            /\ UNCHANGED await_idx
       ELSE /\ await_idx' = await_idx + 1
            /\ running' = "main"
            /\ UNCHANGED main
    /\ UNCHANGED <<Single, BatchArgs, line_no, queue, unfinished, put_zone,
                   sentinels_left, workers, success, failed, stop_event,
                   cancelled_workers, interrupt_count, migrator_closed,
                   exit_code, enqueued, migrated>>

\* stop_event.set(); await progress_task
WorkersAwaited ==
    /\ main = "await_workers" /\ running = "main"
    /\ await_idx > Len(workers)
    /\ stop_event' = TRUE
    /\ main' = "await_progress"
    /\ running' = "loop"
    /\ UNCHANGED <<Single, BatchArgs, line_no, queue, unfinished, put_zone,
                   sentinels_left, workers, await_idx, success, failed,
                   cancelled_workers, interrupt_count, migrator_closed,
                   exit_code, enqueued, migrated>>

\* progress_logger sees stop_event set and returns;
\* await asyncio.shield(migrator.close()) is started
ProgressReturns ==
    /\ main = "await_progress" /\ Idle
    /\ main' = "close"
    /\ UNCHANGED <<Single, BatchArgs, line_no, queue, unfinished, put_zone,
                   sentinels_left, workers, await_idx, success, failed,
                   stop_event, cancelled_workers, running, interrupt_count,
                   migrator_closed, exit_code, enqueued, migrated>>

\* the migrator is closed; return 1 if failed else 0
CloseReturns ==
    /\ main = "close" /\ Idle
    /\ migrator_closed' = TRUE
    /\ exit_code' = Some(IF failed # 0 THEN 1 ELSE 0)
    /\ main' = "returned"
    /\ UNCHANGED <<Single, BatchArgs, line_no, queue, unfinished, put_zone,
                   sentinels_left, workers, await_idx, success, failed,
                   stop_event, cancelled_workers, running, interrupt_count,
                   enqueued, migrated>>

\* the loop runs worker task w: no task has the loop, or w has kept it
Runs(w) ==
    /\ w \in DOMAIN workers
    /\ ~workers[w].cancel
    /\ running = "loop" \/ (running = "worker" /\ workers[w].run)

\* the worker is back at queue.get(), which suspends it on an empty queue
BackAtGet(w, rest) ==
    /\ workers' = [workers EXCEPT ![w] = [pc |-> "get", zone |-> None,
                                          cancel |-> FALSE,
                                          run |-> rest # <<>>, exc |-> "",
                                          step |-> ""]]
    /\ running' = IF rest # <<>> THEN "worker" ELSE "loop"

\* zone = await queue.get(); if zone is None: queue.task_done(); break
WorkerExits(w) ==
    /\ Runs(w) /\ workers[w].pc = "get"
    /\ queue # <<>> /\ Head(queue) = None
    /\ queue' = Tail(queue)
    /\ unfinished' = unfinished - 1
    /\ workers' = [workers EXCEPT ![w].pc = "returned", ![w].run = FALSE]
    /\ running' = "loop"
    /\ UNCHANGED <<Single, BatchArgs, line_no, put_zone, sentinels_left,
                   await_idx, success, failed, stop_event, cancelled_workers,
                   main, interrupt_count, migrator_closed, exit_code,
                   enqueued, migrated>>

\* if stop_event.is_set(): queue.task_done(); continue
WorkerSkips(w) ==
    /\ Runs(w) /\ workers[w].pc = "get"
    /\ queue # <<>> /\ Head(queue) # None
    /\ stop_event
    /\ queue' = Tail(queue)
    /\ unfinished' = unfinished - 1
    /\ BackAtGet(w, queue')
    /\ UNCHANGED <<Single, BatchArgs, line_no, put_zone, sentinels_left,
                   await_idx, success, failed, stop_event, cancelled_workers,
                   main, interrupt_count, migrator_closed, exit_code,
                   enqueued, migrated>>

\* the worker without the test of stop_event
WorkerMigrates_ignores_stop(w) ==
    /\ Runs(w) /\ workers[w].pc = "get"
    /\ queue # <<>> /\ Head(queue) # None
    /\ queue' = Tail(queue)
    /\ workers' = [workers EXCEPT ![w].pc = "migrate",
                                  ![w].zone = Head(queue),
                                  ![w].run = FALSE]
    /\ migrated' = Append(migrated, Head(queue))
    /\ running' = "loop"
    /\ UNCHANGED <<Single, BatchArgs, line_no, unfinished, put_zone,
                   sentinels_left, await_idx, success, failed, stop_event,
                   cancelled_workers, main, interrupt_count, migrator_closed,
                   exit_code, enqueued>>

\* the zone read off the head of the queue and left on it
WorkerMigrates_leaves_zone(w) ==
    /\ Runs(w) /\ workers[w].pc = "get"
    /\ queue # <<>> /\ Head(queue) # None
    /\ ~stop_event
    /\ queue' = queue
    /\ workers' = [workers EXCEPT ![w].pc = "migrate",
                                  ![w].zone = Head(queue),
                                  ![w].run = FALSE]
    /\ migrated' = Append(migrated, Head(queue))
    /\ running' = "loop"
    /\ UNCHANGED <<Single, BatchArgs, line_no, unfinished, put_zone,
                   sentinels_left, await_idx, success, failed, stop_event,
                   cancelled_workers, main, interrupt_count, migrator_closed,
                   exit_code, enqueued>>

\* await migrator.migrate(zone, ...) is begun
WorkerMigrates(w) ==
    /\ Runs(w) /\ workers[w].pc = "get"
    /\ queue # <<>> /\ Head(queue) # None
    /\ ~stop_event
    /\ queue' = Tail(queue)
    /\ workers' = [workers EXCEPT ![w].pc = "migrate",
                                  ![w].zone = Head(queue),
                                  ![w].run = FALSE]
    /\ migrated' = Append(migrated, Head(queue))
    /\ running' = "loop"
    /\ UNCHANGED <<Single, BatchArgs, line_no, unfinished, put_zone,
                   sentinels_left, await_idx, success, failed, stop_event,
                   cancelled_workers, main, interrupt_count, migrator_closed,
                   exit_code, enqueued>>

\* inside migrate, if recreate: if not dry_run:
\* await self.target_client.delete_zone(zone) has returned, and the worker
\* is suspended in create_zone ahead of its request
MigrateDeletes(w) ==
    /\ Runs(w) /\ workers[w].pc = "migrate" /\ Idle
    /\ recreate /\ ~dry_run
    /\ workers[w].step = ""
    /\ workers' = [workers EXCEPT ![w].step = "deleted"]
    /\ UNCHANGED <<Single, BatchArgs, line_no, queue, unfinished, put_zone,
                   sentinels_left, await_idx, success, failed, stop_event,
                   cancelled_workers, main, running, interrupt_count,
                   migrator_closed, exit_code, enqueued, migrated>>

\* created = await self.target_client.create_zone(sanitized): the POST is sent
MigrateCreates(w) ==
    /\ Runs(w) /\ workers[w].pc = "migrate" /\ Idle
    /\ workers[w].step = "deleted"
    /\ workers' = [workers EXCEPT ![w].step = "create"]
    /\ UNCHANGED <<Single, BatchArgs, line_no, queue, unfinished, put_zone,
                   sentinels_left, await_idx, success, failed, stop_event,
                   cancelled_workers, main, running, interrupt_count,
                   migrator_closed, exit_code, enqueued, migrated>>

\* migrate returned: success += 1; finally: queue.task_done()
MigrateSucceeds(w) ==
    /\ Runs(w) /\ workers[w].pc = "migrate" /\ Idle
    /\ workers[w].step # "deleted"
    /\ success' = success + 1
    /\ unfinished' = unfinished - 1
    /\ BackAtGet(w, queue)
    /\ UNCHANGED <<Single, BatchArgs, line_no, queue, put_zone,
                   sentinels_left, await_idx, failed, stop_event,
                   cancelled_workers, main, interrupt_count, migrator_closed,
                   exit_code, enqueued, migrated>>

\* migrate raised an exception of the except clause: failed += 1;
\* if args.on_error == "stop": stop_event.set(); finally: queue.task_done()
MigrateFails(w) ==
    /\ Runs(w) /\ workers[w].pc = "migrate" /\ Idle
    /\ workers[w].step # "deleted"
    /\ \E exc \in MigrateOutcomes \cap Caught :
          /\ failed' = failed + 1
          /\ stop_event' = (stop_event \/ on_error = "stop")
    /\ unfinished' = unfinished - 1
    /\ BackAtGet(w, queue)
    /\ UNCHANGED <<Single, BatchArgs, line_no, queue, put_zone,
                   sentinels_left, await_idx, success, cancelled_workers,
                   main, interrupt_count, migrator_closed, exit_code,
                   enqueued, migrated>>

\* migrate raised an exception the except clause does not name:
\* finally: queue.task_done(), then the exception ends the task
MigrateRaises(w) ==
    /\ Runs(w) /\ workers[w].pc = "migrate" /\ Idle
    /\ workers[w].step # "deleted"
    /\ \E exc \in (MigrateOutcomes \ Caught) \ {"ok"} :
          workers' = [workers EXCEPT ![w].pc = "raised", ![w].exc = exc]
    /\ unfinished' = unfinished - 1
    /\ UNCHANGED <<Single, BatchArgs, line_no, queue, put_zone,
                   sentinels_left, await_idx, success, failed, stop_event,
                   cancelled_workers, main, running, interrupt_count,
                   migrator_closed, exit_code, enqueued, migrated>>

\* the CancelledError of task.cancel() reaches the worker at its await:
\* inside migrate the finally clause runs queue.task_done()
WorkerCancelled(w) ==
    /\ w \in DOMAIN workers /\ running = "loop"
    /\ workers[w].cancel /\ ~Ended(workers[w])
    /\ unfinished' = IF workers[w].pc = "migrate" THEN unfinished - 1
                     ELSE unfinished
    /\ workers' = [workers EXCEPT ![w].pc = "cancelled",
                                  ![w].exc = "CancelledError"]
    /\ UNCHANGED <<Single, BatchArgs, line_no, queue, put_zone,
                   sentinels_left, await_idx, success, failed, stop_event,
                   cancelled_workers, main, running, interrupt_count,
                   migrator_closed, exit_code, enqueued, migrated>>

\* the first SIGINT: asyncio.run cancels the task of _run_batch, and the
\* CancelledError is raised at the await the task is suspended in
Interrupt ==
    /\ interrupt_count = 0 /\ running = "loop"
    /\ main \in {"put", "sentinels", "join", "join_timeout", "await_workers",
                 "await_progress", "close"}
    /\ interrupt_count' = 1
    /\ CASE main = "put" ->
              \* except asyncio.CancelledError: stop_event.set(); break
              /\ stop_event' = TRUE
              /\ put_zone' = <<>>
              /\ main' = "finally"
              /\ running' = "main"
              /\ UNCHANGED <<workers, await_idx, migrator_closed, exit_code>>
         [] main = "sentinels" ->
              \* no handler around the put of a sentinel
              /\ main' = "cancelled"
              /\ UNCHANGED <<stop_event, put_zone, running, workers,
                             await_idx, migrator_closed, exit_code>>
         [] main \in {"join", "join_timeout"} ->
              \* except asyncio.CancelledError: cancel the workers
              /\ workers' = CancelAll(workers)
              /\ main' = "await_workers"
              /\ running' = "main"
              /\ UNCHANGED <<stop_event, put_zone, await_idx, migrator_closed,
                             exit_code>>
         [] main = "await_workers" ->
              \* the cancellation is passed on to the awaited task, and
              \* except asyncio.CancelledError: pass
              /\ IF Ended(workers[await_idx])
                 THEN /\ await_idx' = await_idx + 1
                      /\ running' = "main"
                      /\ UNCHANGED workers
                 ELSE /\ workers' = [workers EXCEPT ![await_idx].cancel = TRUE]
                      /\ UNCHANGED <<await_idx, running>>
              /\ UNCHANGED <<stop_event, put_zone, main, migrator_closed,
                             exit_code>>
         [] main = "await_progress" ->
              \* the cancellation is passed on to the progress task, which
              \* ends, and except asyncio.CancelledError: pass
              UNCHANGED <<stop_event, put_zone, main, running, workers,
                          await_idx, migrator_closed, exit_code>>
         [] main = "close" ->
              \* the shield raises CancelledError in _run_batch, which
              \* swallows it and returns; the close goes on in a task of
              \* its own, which asyncio.run cancels if it has not ended
              \* by then
              /\ main' = "returned"
              /\ exit_code' = Some(IF failed # 0 THEN 1 ELSE 0)
              /\ migrator_closed' \in BOOLEAN
              /\ UNCHANGED <<stop_event, put_zone, running, workers,
                             await_idx>>
    /\ UNCHANGED <<Single, BatchArgs, line_no, queue, unfinished,
                   sentinels_left, success, failed, cancelled_workers,
                   enqueued, migrated>>

\* an exception left _run_batch: asyncio.run cancels the tasks that are
\* left; main() returns 130 for a KeyboardInterrupt, any other exception
\* ends the interpreter with status 1
RunFails ==
    /\ main \in {"raised", "cancelled"} /\ exit_code = <<>>
    /\ running = "loop"
    /\ workers' = CancelAll(workers)
    /\ exit_code' = Some(IF main = "cancelled" THEN 130 ELSE 1)
    /\ UNCHANGED <<Single, BatchArgs, line_no, queue, unfinished, put_zone,
                   sentinels_left, await_idx, success, failed, stop_event,
                   cancelled_workers, main, running, interrupt_count,
                   migrator_closed, enqueued, migrated>>

NextBatch ==
    \/ BatchStart
    \/ ReadEnd
    \/ ReadSkip
    \/ ReadPut
    \/ PutResumes
    \/ Finally
    \/ PutSentinel
    \/ SentinelsPut
    \/ MainSuspends
    \/ JoinReturns
    \/ GracefulTimeout
    \/ AwaitWorker
    \/ WorkersAwaited
    \/ ProgressReturns
    \/ CloseReturns
    \/ \E w \in DOMAIN workers : WorkerExits(w)
    \/ \E w \in DOMAIN workers : WorkerSkips(w)
    \/ \E w \in DOMAIN workers : WorkerMigrates(w)
    \/ \E w \in DOMAIN workers : MigrateDeletes(w)
    \/ \E w \in DOMAIN workers : MigrateCreates(w)
    \/ \E w \in DOMAIN workers : MigrateSucceeds(w)
    \/ \E w \in DOMAIN workers : MigrateFails(w)
    \/ \E w \in DOMAIN workers : MigrateRaises(w)
    \/ \E w \in DOMAIN workers : WorkerCancelled(w)
    \/ Interrupt
    \/ RunFails

SpecBatch == InitBatch /\ [][NextBatch]_vars

----------------------------------------------------------------------------
(* Properties of the batch run *)

\* the zone names of the input
Zones == IF zones_file = <<>> THEN {} ELSE ZoneLines(zones_file[1])

N == Cardinality(Zones)

\* a worker task ended by an exception of migrate
SomeWorkerRaised == \E w \in DOMAIN workers : workers[w].pc = "raised"

\* with one worker, once a zone has failed the zones passed to migrate are
\* the zones enqueued up to the failing one
AtMostK ==
    (on_error = "stop" /\ WorkerCount = 1 /\ (failed > 0 \/ SomeWorkerRaised))
        => /\ failed <= 1
           /\ Len(migrated) = success + 1
           /\ Len(migrated) <= Len(enqueued)
           /\ migrated = SubSeq(enqueued, 1, Len(migrated))

\* C17 as stated: under on_error=stop, once the stop flag is set no worker
\* begins a migrate call and the producer enqueues no further zone name;
\* with one worker, at most k zones are processed when the k-th fails.
C17_Original ==
    [][/\ (on_error = "stop" /\ stop_event) =>
            /\ migrated' = migrated
            /\ enqueued' = enqueued
       /\ AtMostK']_vars

\* C17: under on_error=stop, once the stop flag is set no worker begins a
\* migrate call; the producer begins no further put, and the only zone name
\* enqueued after the flag is the one whose put was suspended on the full
\* queue when the flag was set; with one worker, at most k zones are
\* processed when the k-th enqueued zone fails.
C17_StopPolicy ==
    [][/\ (on_error = "stop" /\ stop_event) =>
            /\ migrated' = migrated
            /\ enqueued' # enqueued =>
                  /\ main = "put"
                  /\ enqueued' = Append(enqueued, put_zone[1])
            /\ main # "put" => main' # "put"
       /\ AtMostK']_vars

\* the first of three zones failed while the third waited for room on a
\* queue of one item: the third was enqueued after the flag was set
C17_Witness ==
    /\ on_error = "stop" /\ concurrency = 0
    /\ interrupt_count = 0
    /\ stop_event /\ failed = 1
    /\ Len(enqueued) = 3 /\ Len(migrated) = 1

\* migrate of worker w ended in this step in an exception, of any kind
MigrateRaised(w) ==
    /\ workers[w].pc = "migrate" /\ workers'[w].pc # "migrate"
    /\ workers'[w].pc # "cancelled"
    /\ success' = success

\* C18: under on_error=continue a failing zone increments failed and does
\* not set the stop flag, and a run without interrupt that ends has passed
\* every zone name to migrate, with success + failed the number of names.
C18_ContinueOnError ==
    [][on_error = "continue" =>
         /\ \A w \in DOMAIN workers :
               MigrateRaised(w) => (failed' = failed + 1 /\ ~stop_event')
         /\ (interrupt_count' = 0 /\ exit_code' # <<>>) =>
               /\ Range(migrated') = Zones
               /\ success' + failed' = N]_vars

\* C19: every failure of migrate, of whatever kind, is caught by the worker
\* and counted in failed, and the worker goes on to read the queue.
C19_WorkerCatchesAll ==
    [][\A w \in DOMAIN workers :
          MigrateRaised(w) =>
              /\ failed' = failed + 1
              /\ workers'[w].pc = "get"]_vars

\* task.cancel() was called in this step on a worker task that is inside
\* migrate
WorkerCancelRequested ==
    \E w \in DOMAIN workers :
        /\ workers[w].pc = "migrate"
        /\ ~workers[w].cancel /\ workers'[w].cancel

\* C20: with graceful_timeout > 0, for either value of on_error, the
\* executor cancels a worker task that is migrating a zone only when the
\* graceful timeout has run out on the wait for the queue.
C20_GracefulCancel ==
    [][(/\ graceful_timeout > 0
        /\ main \notin {"raised", "cancelled"}
        /\ interrupt_count' <= 1
        /\ WorkerCancelRequested) =>
            /\ main = "join_timeout"
            /\ interrupt_count' = interrupt_count
            /\ unfinished > 0]_vars

\* C21: with graceful_timeout = 0 the workers are cancelled at once when the
\* run stops under on_error = "stop"; under on_error = "continue" no worker
\* task that is migrating a zone is cancelled by the executor, and it
\* returns only when every item of the queue has been acknowledged.
C21_ImmediateOrDrain ==
    [][(graceful_timeout = 0 /\ main \notin {"raised", "cancelled"}) =>
          /\ (on_error = "stop" /\ stop_event /\ main = "finally") =>
                \A w \in DOMAIN workers :
                    ~Ended(workers[w]) => workers'[w].cancel
          /\ on_error = "continue" =>
                /\ ~WorkerCancelRequested
                /\ (main # "returned" /\ main' = "returned") =>
                      unfinished' = 0]_vars


\* C22: a batch run that has ended has closed the migrator, whatever the
\* path it ended on.
C22_AlwaysCloses == exit_code # <<>> => migrator_closed

\* C23: a batch run that found its zones file, and in which no worker task
\* ended with an exception, ends with 130 when an interrupt has arrived
\* before its last step, and otherwise with 0 if failed = 0 and with 1 if
\* not.
C23_ExitCodes ==
    [][(/\ exit_code = <<>> /\ exit_code' # <<>>
        /\ zones_file # <<>> /\ ~SomeWorkerRaised) =>
            exit_code' = Some(IF interrupt_count > 0 THEN 130
                              ELSE IF failed' = 0 THEN 0 ELSE 1)]_vars

----------------------------------------------------------------------------
(* The batch run of examples/mysql/migrate.py: a producer task pages the
   domains table into the queue, CONCURRENCY worker tasks migrate the
   names and count them in MigrationStats.  stats.stop_requested is
   stop_event, a domain is on the queue as its row number, and the
   progress reporter, which only reads the counters, is left out. *)

\* CONCURRENCY and ON_ERROR as configured, the domains table as found
InitExample ==
    /\ concurrency \in 0..MaxConcurrency
    /\ on_error \in {"continue", "stop"}
    /\ graceful_timeout = 0 /\ zones_file = <<>>
    /\ NoOptions
    /\ domains \in 0..MaxDomains
    /\ BatchNotStarted /\ ExampleNotStarted
    /\ recreate = FALSE
    /\ NoMigration

\* what the steps of the example leave alone
ExampleArgs == <<Migrating, BatchArgs, domains, line_no, put_zone, await_idx,
                 cancelled_workers>>

\* asyncio.Queue(maxsize=QUEUE_SIZE) has no room: a put suspends
QueueFull == QUEUE_SIZE > 0 /\ Len(queue) >= QUEUE_SIZE

\* SELECT name FROM domains ORDER BY id LIMIT BATCH_SIZE OFFSET offset
fetchall ==
    [i \in 1..Max(0, Min(BATCH_SIZE, domains - offset)) |-> offset + i]

\* the values of migrator_action that migrate returns, and the default of
\* result.get("migrator_action", "unknown") of a dry run
MigratorActions ==
    {"RECREATE_ZONE", "PATCH_ZONE", "NOOP", "CREATE_ZONE", "unknown"}

\* a task of the example can go on without any input or timer
ExampleReady ==
    \/ producer \in {"put", "sentinels"} /\ ~QueueFull
    \/ main = "await_producer" /\ producer = "returned"
    \/ main = "join" /\ unfinished = 0
    \/ main = "gather"
    \/ \E w \in DOMAIN workers :
          /\ ~Ended(workers[w])
          /\ workers[w].cancel \/ (workers[w].pc = "get" /\ queue # <<>>)

ExampleIdle == running = "loop" /\ ~ExampleReady

\* main up to "await producer_task": no domain ends the run; otherwise the
\* producer and the worker tasks are created
ExampleStart ==
    /\ main = "start" /\ running = "loop"
    /\ total' = domains
    /\ IF domains = 0
       THEN /\ main' = "returned"
            /\ exit_code' = Some(0)
            /\ UNCHANGED <<workers, producer>>
       ELSE /\ workers' = [w \in 1..concurrency |-> NewWorker]
            /\ producer' = "fetch"
            /\ main' = "await_producer"
            /\ UNCHANGED exit_code
    /\ UNCHANGED <<ExampleArgs, interrupt_count, queue, unfinished, sentinels_left, success,
                   failed, stop_event, running, migrator_closed, enqueued,
                   migrated, processed, skipped, offset, rows, row_i>>

\* rows = await cur.fetchall(); if not rows: break
FetchReturns ==
    /\ producer = "fetch" /\ ExampleIdle
    /\ IF fetchall = <<>>
       THEN /\ producer' = "sentinels"
            /\ sentinels_left' = concurrency
            /\ UNCHANGED <<rows, row_i>>
       ELSE /\ producer' = "rows"
            /\ rows' = fetchall
            /\ row_i' = 1
            /\ UNCHANGED sentinels_left
    /\ running' = "producer"
    /\ UNCHANGED <<ExampleArgs, interrupt_count, queue, unfinished, workers, success, failed,
                   stop_event, main, migrator_closed, exit_code, enqueued,
                   migrated, total, processed, skipped, offset>>

\* for row in rows: if stats.stop_requested: break; await queue.put(row[0])
\* a put into a full queue suspends the producer
RowPut ==
    /\ producer = "rows" /\ running = "producer"
    /\ row_i <= Len(rows) /\ ~stop_event
    /\ IF QueueFull
       THEN /\ producer' = "put"
            /\ running' = "loop"
            /\ UNCHANGED <<queue, unfinished, enqueued, row_i>>
       ELSE /\ queue' = Append(queue, rows[row_i])
            /\ unfinished' = unfinished + 1
            /\ enqueued' = Append(enqueued, rows[row_i])
            /\ row_i' = row_i + 1
            /\ UNCHANGED <<producer, running>>
    /\ UNCHANGED <<ExampleArgs, interrupt_count, sentinels_left, workers, success, failed,
                   stop_event, main, migrator_closed, exit_code, migrated,
                   total, processed, skipped, offset, rows>>

\* the suspended queue.put(row[0]) finds room
RowPutResumes ==
    /\ producer = "put" /\ running = "loop" /\ ~QueueFull
    /\ queue' = Append(queue, rows[row_i])
    /\ unfinished' = unfinished + 1
    /\ enqueued' = Append(enqueued, rows[row_i])
    /\ row_i' = row_i + 1
    /\ producer' = "rows"
    /\ running' = "producer"
    /\ UNCHANGED <<ExampleArgs, interrupt_count, sentinels_left, workers, success, failed,
                   stop_event, main, migrator_closed, exit_code, migrated,
                   total, processed, skipped, offset, rows>>

\* the for loop ends: offset += len(rows); while not stats.stop_requested
RowsDone ==
    /\ producer = "rows" /\ running = "producer"
    /\ row_i > Len(rows) \/ stop_event
    /\ offset' = offset + Len(rows)
    /\ IF stop_event
       THEN /\ producer' = "sentinels"
            /\ sentinels_left' = concurrency
            /\ UNCHANGED running
       ELSE /\ producer' = "fetch"
            /\ running' = "loop"
            /\ UNCHANGED sentinels_left
    /\ UNCHANGED <<ExampleArgs, interrupt_count, queue, unfinished, workers, success, failed,
                   stop_event, main, migrator_closed, exit_code, enqueued,
                   migrated, total, processed, skipped, rows, row_i>>

\* for _ in range(CONCURRENCY): await queue.put(None)
SentinelPut ==
    /\ producer = "sentinels" /\ running \in {"loop", "producer"}
    /\ sentinels_left > 0 /\ ~QueueFull
    /\ queue' = Append(queue, None)
    /\ unfinished' = unfinished + 1
    /\ sentinels_left' = sentinels_left - 1
    /\ running' = "producer"
    /\ UNCHANGED <<ExampleArgs, interrupt_count, workers, success, failed, stop_event, main,
                   migrator_closed, exit_code, enqueued, migrated, Example>>

\* queue.put(None) into a full queue suspends the producer
ProducerSuspends ==
    /\ producer = "sentinels" /\ running = "producer"
    /\ sentinels_left > 0 /\ QueueFull
    /\ running' = "loop"
    /\ UNCHANGED <<ExampleArgs, interrupt_count, queue, unfinished, sentinels_left, workers,
                   success, failed, stop_event, main, migrator_closed,
                   exit_code, enqueued, migrated, Example>>

\* fetch_domains_producer returns
ProducerReturns ==
    /\ producer = "sentinels" /\ running = "producer"
    /\ sentinels_left = 0
    /\ producer' = "returned"
    /\ running' = "loop"
    /\ UNCHANGED <<ExampleArgs, interrupt_count, queue, unfinished, sentinels_left, workers,
                   success, failed, stop_event, main, migrator_closed,
                   exit_code, enqueued, migrated, domains, total, processed,
                   skipped, offset, rows, row_i>>

\* await producer_task returns and main is at await queue.join()
ProducerAwaited ==
    /\ main = "await_producer" /\ running = "loop"
    /\ producer = "returned"
    /\ main' = "join"
    /\ running' = "main"
    /\ UNCHANGED <<ExampleArgs, interrupt_count, queue, unfinished, sentinels_left, workers,
                   success, failed, stop_event, migrator_closed, exit_code,
                   enqueued, migrated, Example>>

\* queue.join() suspends main while a task_done is owed
JoinSuspends ==
    /\ main = "join" /\ running = "main"
    /\ unfinished > 0
    /\ running' = "loop"
    /\ UNCHANGED <<ExampleArgs, interrupt_count, queue, unfinished, sentinels_left, workers,
                   success, failed, stop_event, main, migrator_closed,
                   exit_code, enqueued, migrated, Example>>

\* queue.join() returns: stats.stop_requested = True;
\* await asyncio.gather(*worker_tasks)
JoinDone ==
    /\ main = "join" /\ running \in {"loop", "main"}
    /\ unfinished = 0
    /\ stop_event' = TRUE
    /\ main' = "gather"
    /\ running' = "loop"
    /\ UNCHANGED <<ExampleArgs, interrupt_count, queue, unfinished, sentinels_left, workers,
                   success, failed, migrator_closed, exit_code, enqueued,
                   migrated, Example>>

\* gather returns when every worker has ended and raises the exception
\* of a worker that raised; finally: await migrator.close()
GatherReturns ==
    /\ main = "gather" /\ running = "loop"
    /\ \/ \E w \in DOMAIN workers : workers[w].pc = "raised"
       \/ \A w \in DOMAIN workers : Ended(workers[w])
    /\ main' = IF \/ \E w \in DOMAIN workers : workers[w].pc = "raised"
                  \/ interrupt_count > 0
               THEN "close_raising" ELSE "close"
    /\ UNCHANGED <<ExampleArgs, interrupt_count, queue, unfinished, sentinels_left, workers,
                   success, failed, stop_event, running, migrator_closed,
                   exit_code, enqueued, migrated, Example>>

\* migrator.close() returns and main returns, or raises what it had caught;
\* asyncio.run cancels the tasks that are left, and the interpreter ends
\* with 130 after a KeyboardInterrupt and with 1 after another exception
ExampleCloseReturns ==
    /\ main \in {"close", "close_raising"} /\ ExampleIdle
    /\ migrator_closed' = TRUE
    /\ main' = IF main = "close" THEN "returned" ELSE "raised"
    /\ exit_code' = IF main = "close" THEN Some(0)
                    ELSE IF interrupt_count > 0 THEN Some(130) ELSE Some(1)
    /\ workers' = CancelAll(workers)
    /\ UNCHANGED <<ExampleArgs, interrupt_count, queue, unfinished,
                   sentinels_left, success, failed, stop_event, running,
                   enqueued, migrated, Example>>

\* the first SIGINT: asyncio.run cancels the task of main.  At
\* "await producer_task" the cancellation is passed on to the producer, at
\* "await queue.join()" it ends the join; either way the CancelledError
\* reaches main and "finally: await migrator.close()" is begun.  At gather
\* the cancellation is passed on to the workers, and gather raises once
\* they have ended.
ExampleInterrupt ==
    /\ interrupt_count = 0 /\ running = "loop"
    /\ main \in {"await_producer", "join", "gather"}
    /\ interrupt_count' = 1
    /\ IF main = "gather"
       THEN /\ workers' = CancelAll(workers)
            /\ UNCHANGED <<main, producer>>
       ELSE /\ main' = "close_raising"
            /\ producer' = IF main = "await_producer" THEN "cancelled"
                            ELSE producer
            /\ UNCHANGED workers
    /\ UNCHANGED <<ExampleArgs, queue, unfinished, sentinels_left, success,
                   failed, stop_event, running, migrator_closed, exit_code,
                   enqueued, migrated, domains, total, processed, skipped,
                   offset, rows, row_i>>

\* the CancelledError of task.cancel() reaches the worker at its await:
\* inside migrate, finally: stats.processed += 1; queue.task_done()
migrate_worker_cancelled(w) ==
    /\ w \in DOMAIN workers /\ running = "loop"
    /\ workers[w].cancel /\ ~Ended(workers[w])
    /\ IF workers[w].pc = "migrate"
       THEN processed' = processed + 1 /\ unfinished' = unfinished - 1
       ELSE UNCHANGED <<processed, unfinished>>
    /\ workers' = [workers EXCEPT ![w].pc = "cancelled",
                                  ![w].exc = "CancelledError"]
    /\ UNCHANGED <<ExampleArgs, interrupt_count, queue, sentinels_left,
                   success, failed, stop_event, main, running,
                   migrator_closed, exit_code, enqueued, migrated, domains,
                   total, skipped, producer, offset, rows, row_i>>

\* migrate returned: stats.skipped += 1 or stats.success += 1;
\* finally: stats.processed += 1; queue.task_done()
migrate_worker_succeeds(w) ==
    /\ Runs(w) /\ workers[w].pc = "migrate" /\ ExampleIdle
    /\ \E action \in MigratorActions :
          IF action = "skipped"
          THEN skipped' = skipped + 1 /\ UNCHANGED success
          ELSE success' = success + 1 /\ UNCHANGED skipped
    /\ processed' = processed + 1
    /\ unfinished' = unfinished - 1
    /\ BackAtGet(w, queue)
    /\ UNCHANGED <<ExampleArgs, interrupt_count, queue, sentinels_left, failed, stop_event,
                   main, migrator_closed, exit_code, enqueued, migrated,
                   total, producer, offset, rows, row_i>>

\* except PowerDNSAPIError: stats.failed += 1;
\* if ON_ERROR == "stop": stats.stop_requested = True;
\* finally: stats.processed += 1; queue.task_done()
migrate_worker_fails(w) ==
    /\ Runs(w) /\ workers[w].pc = "migrate" /\ ExampleIdle
    /\ failed' = failed + 1
    /\ stop_event' = (stop_event \/ on_error = "stop")
    /\ processed' = processed + 1
    /\ unfinished' = unfinished - 1
    /\ BackAtGet(w, queue)
    /\ UNCHANGED <<ExampleArgs, interrupt_count, queue, sentinels_left, success, main,
                   migrator_closed, exit_code, enqueued, migrated, total,
                   skipped, producer, offset, rows, row_i>>

\* migrate raised an exception that is no PowerDNSAPIError:
\* finally: stats.processed += 1; queue.task_done(), and the task ends
migrate_worker_raises(w) ==
    /\ Runs(w) /\ workers[w].pc = "migrate" /\ ExampleIdle
    /\ \E exc \in MigrateOutcomes \ {"ok", "PowerDNSAPIError"} :
          workers' = [workers EXCEPT ![w].pc = "raised", ![w].exc = exc]
    /\ processed' = processed + 1
    /\ unfinished' = unfinished - 1
    /\ UNCHANGED <<ExampleArgs, interrupt_count, queue, sentinels_left, success, failed,
                   stop_event, main, running, migrator_closed, exit_code,
                   enqueued, migrated, total, skipped, producer, offset,
                   rows, row_i>>

NextExample ==
    \/ ExampleStart
    \/ FetchReturns
    \/ RowPut
    \/ RowPutResumes
    \/ RowsDone
    \/ SentinelPut
    \/ ProducerSuspends
    \/ ProducerReturns
    \/ ProducerAwaited
    \/ JoinSuspends
    \/ JoinDone
    \/ GatherReturns
    \/ ExampleCloseReturns
    \/ \E w \in DOMAIN workers : WorkerExits(w)
    \/ \E w \in DOMAIN workers : WorkerSkips(w)
    \/ \E w \in DOMAIN workers : WorkerMigrates(w)
    \/ \E w \in DOMAIN workers : migrate_worker_succeeds(w)
    \/ \E w \in DOMAIN workers : migrate_worker_fails(w)
    \/ \E w \in DOMAIN workers : migrate_worker_raises(w)
    \/ \E w \in DOMAIN workers : migrate_worker_cancelled(w)
    \/ ExampleInterrupt

SpecExample == InitExample /\ [][NextExample]_vars

\* C16: at every point of a batch run over N names the counters obey
\* processed = success + failed + skipped and processed <= N, and a run
\* that ends cleanly, with no stop requested by a failure, has
\* processed = N.
C16_BatchCompletion ==
    /\ processed = success + failed + skipped
    /\ processed <= domains
    /\ (/\ main = "returned"
        /\ ~(on_error = "stop" /\ failed > 0)) => processed = domains

----------------------------------------------------------------------------
(* Names stored and transmitted by migrate *)

\* the names of a sanitized zone: its own and those of its rrsets
ZoneNames(zone) ==
    {zone["name"]} \cup {rr.name : rr \in Range(ZoneRRsets(zone))}

\* the names a request transmits: the zone of its path, and the names of
\* the zone or of the operations of its body
RequestNames(request) ==
    (IF Len(request.path) > 1 THEN {Tail(request.path)} ELSE {})
    \cup (IF request.method = "POST" THEN ZoneNames(request.body)
          ELSE IF request.method = "PATCH"
               THEN {op.name : op \in Range(request.body.rrsets)}
               ELSE {})

\* the names the servers gave and the zone name migrate was called with
GivenNames ==
    {zone_name} \cup {rr.name : rr \in Range(ZoneRRsets(source_doc))}
    \cup (IF target_doc = <<>> THEN {}
          ELSE {rr.name : rr \in Range(ZoneRRsets(target_doc))})

\* C29: the zone of every request path, the names of every request body,
\* the name of the sanitized zone and of each of its rrsets and the name of
\* every operation of the change set end with ".", and normalizing a
\* normalized name changes nothing.
C29_TrailingDot ==
    /\ \A i \in DOMAIN requests :
          \A name \in RequestNames(requests[i]) : EndsWithDot(name)
    /\ sanitized # <<>> => \A name \in ZoneNames(sanitized) : EndsWithDot(name)
    /\ \A i \in DOMAIN changes : EndsWithDot(changes[i].name)
    /\ \A name \in GivenNames :
          normalize_zone_name(normalize_zone_name(name))
            = normalize_zone_name(name)

\* a patch sent for a zone and an rrset whose names came without the dot
C29_Witness ==
    /\ pc = "done"
    /\ ~EndsWithDot(zone_name)
    /\ \E rr \in Range(ZoneRRsets(source_doc)) : rr.name = WwwNoDot
    /\ \E i \in DOMAIN requests :
          /\ requests[i].method = "PATCH"
          /\ \E op \in Range(requests[i].body.rrsets) : op.name = Www

----------------------------------------------------------------------------
(* zone_exists *)

ZoneExistsEnds == pc = "zone_exists" /\ pc' # "zone_exists"

\* the GET of zone_exists is answered 404 at this attempt
ZoneExistsAnswered404 ==
    /\ pc = "zone_exists"
    /\ attempts' = attempts + 1
    /\ last_outcome' # <<>>
    /\ last_outcome'[1].kind = "response"
    /\ last_outcome'[1].status = 404

\* C30: zone_exists returns None when the GET is answered 404, at the
\* attempt that was answered 404 (a 404 is not retried); it returns the
\* document when the GET succeeded; it raises the PowerDNSAPIError of any
\* other status of 400 or more and the PowerDNSConnectionError of a
\* transport failure; it returns None for nothing but a 404.
C30_ZoneExists ==
    [][/\ ZoneExistsAnswered404 =>
            /\ pc' = Returned("zone_exists")
            /\ error' = <<>>
       /\ ZoneExistsEnds =>
            LET outcome == last_outcome'[1] IN
            IF outcome.kind = "transport"
            THEN /\ pc' = "raised"
                 /\ error'[1].type = "PowerDNSConnectionError"
            ELSE IF outcome.status = 404
            THEN pc' = Returned("zone_exists")
            ELSE IF outcome.status >= 400
            THEN /\ pc' = "raised"
                 /\ error'[1].type = "PowerDNSAPIError"
                 /\ error'[1].status = outcome.status
            ELSE /\ pc' = Returned("zone_exists")
                 /\ error' = <<>>
       /\ pc = Returned("zone_exists") =>
            target_zone' = IF last_outcome[1].status = 404 THEN <<>>
                           ELSE target_doc]_vars

\* zone_exists has raised the API error of a 500 that was answered to the
\* last attempt, after retries
C30_Witness ==
    /\ pc = "raised"
    /\ requests[Len(requests)].client = "target"
    /\ requests[Len(requests)].method = "GET"
    /\ attempts > 1
    /\ error[1].type = "PowerDNSAPIError" /\ error[1].status = 500

----------------------------------------------------------------------------
(* The order of the requests of one migrate call *)

\* the requests still in flight
InFlight == {i \in DOMAIN requests : requests[i].outcome = "pending"}

\* the call has returned to migrate without raising
CallSucceeded(request) ==
    \/ request.outcome = "ok"
    \/ /\ request.outcome = "api_error"
       /\ request.client = "target" /\ request.method = "GET"
       /\ target_zone = <<>>

\* C31: at most one request of a migrate call is in flight, and it is the
\* last one issued; the first request is the source GET, the second is the
\* target's existence check and is issued after the source GET has
\* succeeded; a write to the target is issued after both have succeeded.
C31_Sequential ==
    /\ Cardinality(InFlight) <= 1
    /\ InFlight \subseteq {Len(requests)}
    /\ pc \in Calls <=> InFlight # {}
    /\ Len(requests) >= 1 =>
          requests[1].client = "source" /\ requests[1].method = "GET"
    /\ Len(requests) >= 2 =>
          /\ requests[1].outcome = "ok"
          /\ requests[2].client = "target" /\ requests[2].method = "GET"
    /\ \A i \in DOMAIN requests :
          IsWrite(requests[i]) =>
              /\ i >= 3
              /\ CallSucceeded(requests[1]) /\ CallSucceeded(requests[2])
              /\ \A j \in 1..(i - 1) : CallSucceeded(requests[j])

\* a recreate has run to its end: GET, GET, DELETE, POST
C31_Witness ==
    /\ pc = "done"
    /\ Len(requests) = 4
    /\ requests[3].method = "DELETE" /\ requests[4].method = "POST"

----------------------------------------------------------------------------
(* Errors of the client calls inside migrate *)

\* the client call of this request raised; the API error of a 404 does not
\* leave zone_exists, and the status of the existence check is known while
\* it is the last request
CallRaised(i) ==
    \/ requests[i].outcome = "connection_error"
    \/ /\ requests[i].outcome = "api_error"
       /\ (requests[i].client = "target" /\ requests[i].method = "GET") =>
              /\ i = Len(requests)
              /\ last_outcome[1].status # 404

\* the error the client raised for the outcome of its last attempt
ClientError(request, outcome) ==
    IF request.outcome = "api_error"
    THEN PowerDNSAPIError(request.method, outcome.status, outcome.body)
    ELSE [type |-> "PowerDNSConnectionError", method |-> request.method,
          retries_attempted |-> retries]

\* C32: a client call that raised is the last request of its migrate call;
\* migrate has then ended with the client's error as it was raised and
\* without a result; no request is issued twice; a source GET answered 404
\* ends migrate with the API error of the 404 and no request to the target.
C32_ErrorsPropagate ==
    /\ \A i \in DOMAIN requests :
          CallRaised(i) =>
              /\ i = Len(requests)
              /\ pc = "raised"
              /\ result = <<>>
              /\ error = Some(ClientError(requests[i], last_outcome[1]))
    /\ pc = "raised" => CallRaised(Len(requests))
    /\ \A i, j \in DOMAIN requests :
          (/\ requests[i].client = requests[j].client
           /\ requests[i].method = requests[j].method) => i = j
    /\ (/\ requests # <<>>
        /\ requests[1].outcome = "api_error") =>
              /\ Len(requests) = 1
              /\ error[1].type = "PowerDNSAPIError"
              /\ error[1].status = last_outcome[1].status

\* migrate never goes on once a client call has raised
C32_Ends == [][pc # "raised"]_vars

\* the source GET was answered 404
C32_Witness ==
    /\ pc = "raised"
    /\ Len(requests) = 1
    /\ error[1].type = "PowerDNSAPIError" /\ error[1].status = 404

----------------------------------------------------------------------------
(* TXT escapes *)

\* the chunks of a TXT token with every doubled backslash collapsed
RECURSIVE CollapseEscapes(_)
CollapseEscapes(chunks) ==
    IF Len(chunks) < 2 THEN chunks
    ELSE IF chunks[1] = "\\" /\ chunks[2] = "\\"
    THEN CollapseEscapes(Tail(chunks))
    ELSE <<chunks[1]>> \o CollapseEscapes(Tail(chunks))

CanonicalTxt(content) ==
    [content EXCEPT !.parts = MapSeq(content.parts, CollapseEscapes)]

CanonicalRecords(rrset) ==
    BagOfSeq(MapSeq(rrset.records,
                    LAMBDA r : [r EXCEPT !.content = CanonicalTxt(r.content)]))

\* the rrset of the target with the key of this change, differing from the
\* source's at most in the escapes of TXT contents
SameButEscapes(change) ==
    \E t \in Range(ZoneRRsets(target_doc)) :
       /\ normalize_zone_name(t.name) = change.name /\ t.type = change.type
       /\ t.type = "TXT"
       /\ t.ttl = Some(change.ttl)
       /\ CanonicalRecords(t) = CanonicalRecords(change)

\* C33: a migrator built with normalize_txt_escapes enabled sanitizes, every
\* TXT content of the sanitized zone is in the canonical escape form, and
\* the diff has no REPLACE for a TXT rrset that differs from the target's
\* only in single versus double escapes.
C33_TxtEscapes ==
    (normalize_txt_escapes = <<TRUE>>
        /\ pc \notin {"build_migrator", "diff_input"}) =>
       /\ pc = "diff_done"
       /\ \A rr \in Range(ZoneRRsets(sanitized)) :
             rr.type = "TXT" =>
                \A r \in Range(rr.records) :
                   r.content = CanonicalTxt(r.content)
       /\ \A change \in Range(changes) :
             change.changetype = "REPLACE" => ~SameButEscapes(change)

----------------------------------------------------------------------------
(* The order of the change set *)

\* the keys the target zone has
KeysOnTarget ==
    {<<normalize_zone_name(rr.name), rr.type>> :
        rr \in Range(ZoneRRsets(target_zone))}

IsDelete(change) == change.changetype = "DELETE"

\* a REPLACE of a key the target has
IsUpdate(change) ==
    /\ change.changetype = "REPLACE"
    /\ <<change.name, change.type>> \in KeysOnTarget

\* a REPLACE of a key the target has not
IsCreate(change) ==
    /\ change.changetype = "REPLACE"
    /\ <<change.name, change.type>> \notin KeysOnTarget

\* C34: in the change set no REPLACE comes before a DELETE, and no REPLACE
\* of a key new to the target comes before a REPLACE of a key the target has.
C34_EmissionOrder ==
    \A i, j \in DOMAIN changes :
       i < j =>
          /\ ~(~IsDelete(changes[i]) /\ IsDelete(changes[j]))
          /\ ~(IsCreate(changes[i]) /\ IsUpdate(changes[j]))

\* a change set with a delete, an update and a create
C34_Witness ==
    /\ pc = "diff_done"
    /\ Len(changes) = 3
    /\ IsDelete(changes[1]) /\ IsUpdate(changes[2]) /\ IsCreate(changes[3])

----------------------------------------------------------------------------
(* The queue of the batch run *)

\* max(1, concurrency * 2)
Capacity == IF concurrency * 2 > 1 THEN concurrency * 2 ELSE 1

\* C35: the queue never holds more than max(1, concurrency * 2) items,
\* zones and sentinels together; nothing is put on a full queue; the
\* producer is suspended in a put only on a full queue, the queue loses
\* items meanwhile only to a worker, and the put completes on a queue with
\* room.
C35_BoundedQueue ==
    [][/\ Len(queue) <= Capacity /\ Len(queue') <= Capacity
       /\ Len(queue) >= Capacity => Len(queue') <= Len(queue)
       /\ (main # "put" /\ main' = "put") => Len(queue) = Capacity
       /\ (main = "put" /\ Len(queue') < Len(queue)) =>
             \E w \in DOMAIN workers :
                /\ workers[w].pc = "get"
                /\ workers'[w].pc # "get" \/ stop_event
       /\ (main = "put" /\ main' = "read") =>
             /\ Len(queue) < Capacity
             /\ queue' = Append(queue, put_zone[1])]_vars

\* the producer is suspended on a full queue while a worker migrates a
\* zone it took before
C35_Witness ==
    /\ main = "put" /\ running = "loop"
    /\ Len(queue) = Capacity
    /\ \E w \in DOMAIN workers : workers[w].pc = "migrate"

----------------------------------------------------------------------------
(* The sentinels *)

\* the sentinels on the queue
SentinelsQueued == Cardinality({i \in DOMAIN queue : queue[i] = None})

\* the workers that have left their loop at the break
WorkersExited ==
    Cardinality({w \in DOMAIN workers : workers[w].pc = "returned"})

\* every sentinel put so far is on the queue or has ended one worker
SentinelsPutSoFar == SentinelsQueued + WorkersExited

\* the producer is through with the sentinels
AfterSentinels ==
    main \in {"join", "join_timeout", "await_workers", "await_progress",
              "close", "returned", "raised"}

\* a run without interrupt, cancellation or uncaught exception has returned
CleanRun ==
    /\ main = "returned" /\ zones_file # <<>>
    /\ interrupt_count = 0
    /\ on_error = "continue" \/ failed = 0

\* C36: the sentinels are put after the last zone, one for each worker task;
\* on the queue no zone stands behind a sentinel; a worker that takes a
\* sentinel exits and takes nothing more; after a clean run every worker has
\* exited, the queue is empty and no item is unacknowledged.
C36_Sentinels ==
    [][/\ main = "sentinels" =>
             SentinelsPutSoFar + sentinels_left = Len(workers)
       /\ AfterSentinels => SentinelsPutSoFar = Len(workers)
       /\ main \notin {"sentinels", "cancelled"} /\ ~AfterSentinels =>
             SentinelsPutSoFar = 0
       /\ SentinelsPutSoFar > 0 => enqueued' = enqueued
       /\ \A i, j \in DOMAIN queue :
             (i < j /\ queue[i] = None) => queue[j] = None
       /\ (queue # <<>> /\ queue' = Tail(queue)) =>
             IF Head(queue) = None
             THEN \E w \in DOMAIN workers :
                     /\ workers[w].pc = "get" /\ workers'[w].pc = "returned"
                     /\ \A v \in DOMAIN workers \ {w} : workers'[v] = workers[v]
             ELSE WorkersExited' = WorkersExited
       /\ \A w \in DOMAIN workers :
             workers[w].pc = "returned" => workers'[w] = workers[w]
       /\ CleanRun =>
             /\ \A w \in DOMAIN workers : workers[w].pc = "returned"
             /\ queue = <<>> /\ unfinished = 0]_vars

\* a clean run of two workers over zones has returned
C36_Witness ==
    /\ CleanRun
    /\ Len(workers) = 2
    /\ Len(enqueued) > 1
    /\ success > 0

----------------------------------------------------------------------------
(* The migrator is closed after the workers *)

\* migrator.close() has been started
CloseStarted ==
    \/ main \in {"close", "close_raising"}
    \/ migrator_closed

\* the worker is inside migrator.migrate, or it waits for the queue, which
\* holds a zone it will pass to migrate
CanMigrate(worker) ==
    \/ worker.pc = "migrate"
    \/ /\ worker.pc = "get" /\ ~worker.cancel /\ ~stop_event
       /\ \E i \in DOMAIN queue : queue[i] # None

\* C37: migrator.close() is started only when no worker task is inside
\* migrate or about to call it.
C37_CloseAfterWorkers ==
    CloseStarted => \A w \in DOMAIN workers : ~CanMigrate(workers[w])

----------------------------------------------------------------------------
(* The batch run ends *)

\* a step of the batch run other than a signal from outside
BatchStep ==
    \/ BatchStart \/ ReadEnd \/ ReadSkip \/ ReadPut \/ PutResumes \/ Finally
    \/ PutSentinel \/ SentinelsPut \/ MainSuspends \/ JoinReturns
    \/ GracefulTimeout \/ AwaitWorker \/ WorkersAwaited \/ ProgressReturns
    \/ CloseReturns \/ RunFails
    \/ \E w \in DOMAIN workers :
          \/ WorkerExits(w) \/ WorkerSkips(w) \/ WorkerMigrates(w)
          \/ MigrateDeletes(w) \/ MigrateCreates(w)
          \/ MigrateSucceeds(w) \/ MigrateFails(w) \/ MigrateRaises(w)
          \/ WorkerCancelled(w)

\* C38: a batch run that has not finished can take a step: the producer is
\* not suspended for ever on a full queue and queue.join() is not left
\* waiting for an item that no worker will acknowledge, whatever migrate
\* returned or raised.
C38_NoDeadlock == exit_code # <<>> \/ ENABLED BatchStep

----------------------------------------------------------------------------
(* Each zone goes to one worker *)

NoDuplicates(seq) == \A i, j \in DOMAIN seq : seq[i] = seq[j] => i = j

\* the zones waiting on the queue
ZonesQueued == {queue[i] : i \in DOMAIN queue} \ {None}

\* the workers inside migrator.migrate
InMigrate == {w \in DOMAIN workers : workers[w].pc = "migrate"}

----------------------------------------------------------------------------
(* A recreate that is cut short *)

\* C40: no worker task ends between the delete_zone and the create_zone of
\* a recreate: a zone deleted on the target has had its create issued when
\* the migration ends.
C40_RecreateCompletes ==
    \A w \in DOMAIN workers :
       Ended(workers[w]) => workers[w].step # "deleted"

====
